---- MODULE Spec2Model ----
(***************************************************************************)
(* State-machine model of the waldur site agent: the order reconciliation  *)
(* processor, the membership differ, and the SLURM accounting backend.     *)
(*                                                                         *)
(* The repository carries two generations of the order processor:          *)
(*   impl = "processors"           processors.py, OfferingOrderProcessor   *)
(*   impl = "agent_order_process"  agent_order_process.py, same class name *)
(* The order actions below translate both; impl is fixed by Init.          *)
(*                                                                         *)
(* The control plane (Waldur) is an external collaborator.  It applies     *)
(* every state-transition call exactly as issued by the agent, so that a   *)
(* property of the order states is a property of the calls the agent makes.*)
(***************************************************************************)
EXTENDS Integers, Sequences, FiniteSets, TLC

\* ---------------------------------------------------------------- bounds
MaxPasses == 2

\* ------------------------------------------------------ program constants
max_attempts == 4

MARKETPLACE_SLURM_OFFERING_TYPE == "Marketplace.Slurm"

\* ------------------------------------------------------------ universes
OrderIds == <<"o1", "o2">>
Orders == {OrderIds[i] : i \in 1..Len(OrderIds)}
FreshBackendIds == {"b1", "b2"}
Components == {"cpu", "mem"}
EmptyDict == [c \in {} |-> 0]
NoOrder == [uuid |-> "none", state |-> "none", mr |-> FALSE, alloc |-> FALSE]
NoResource == [backend_id |-> "", limits |-> EmptyDict, marketplace_uuid |-> "none"]

VARIABLES
  impl,                \* which generation of the order processor runs
  offering_type,       \* order["offering_type"] / waldur_resource["offering_type"]
  backend_components,  \* offering.backend_components
  homedir_enabled,     \* backend_settings["enable_user_homedir_account_creation"]
  orders,              \* control plane: order uuid -> order
  resources,           \* control plane: marketplace resource of each order
  team,                \* control plane: resource -> user uuids of the team
  offering_users,      \* control plane: offering users
  accounts,            \* cluster: existing account names (backend ids)
  account_limits,      \* cluster: account -> GrpTRESMins
  associations,        \* cluster: set of <<user, account>>
  pc, queue, order, attempts, passes,   \* the order worker
  fetched,             \* order -> state the current pass fetched it in
  outcome,             \* order -> how its last dispatch ended
  transitions,         \* order -> state-transition calls applied in its last processing
  calls,               \* order -> backend calls made in its last processing
  created,             \* order -> Resource returned by create_resource
  backend_settings,    \* offering.backend_settings: the QoS names
  account_qos,         \* cluster: account -> QoS
  m_resources,         \* control plane: the offering's marketplace resources
  m_pc, resource_report,   \* the membership worker
  sync,                \* resource -> what its last membership processing did
  m_frame,             \* the membership worker's local variables between its calls
  usage_lines,         \* cluster: the sacct lines of the current month
  b_call, b_calls,     \* the last direct backend call and the number made
  waldur_offering,     \* control plane: the offering with its declared components
  r_pc,                \* the report worker
  r_resource_report,   \* the report worker's resource_report, the part still to process
  rep,                 \* resource -> what the current report pass did to it
  e_pc, e_event,       \* the role-change handler and the event it serves
  e_report,            \* the handler's resource_report, the part still to process
  e_op,                \* the last call of the handler and how it ended
  e_frame,             \* the handler's local variables between its calls
  e_done,              \* <<resource, operation>>: what the handler did for the event
  e_events,            \* the number of events served
  d_offerings,         \* configuration.waldur_offerings: offering -> backend_type
  d_pc, d_queue,       \* the driver loop and the offerings left in its pass
  d_log,               \* offering -> how its processing ended in the current pass
  d_running            \* whether the agent process is alive

cpVars == <<orders, resources, team, offering_users>>
clusterVars == <<accounts, account_limits, associations>>
configVars == <<impl, offering_type, backend_components, homedir_enabled>>
workerVars == <<pc, queue, order, attempts, passes>>
historyVars == <<fetched, outcome, transitions, calls, created>>
memberVars == <<backend_settings, account_qos, m_resources, m_pc, resource_report, sync,
               m_frame>>
backendVars == <<usage_lines, b_call, b_calls>>
reportVars == <<waldur_offering, r_pc, r_resource_report, rep>>
eventVars == <<e_pc, e_event, e_report, e_op, e_frame, e_done, e_events>>
driverVars == <<d_offerings, d_pc, d_queue, d_log, d_running>>
vars == <<configVars, cpVars, clusterVars, workerVars, historyVars, memberVars, backendVars,
          reportVars, eventVars, driverVars>>

\* ------------------------------------------------------------ pure helpers

\* backends/utils.get_usage_based_limits: native default limits of the
\* usage-kind components
get_usage_based_limits(bc) ==
  [c \in {k \in DOMAIN bc : bc[k].accounting_type = "usage"} |->
     bc[c].limit * bc[c].unit_factor]

\* SlurmBackend._collect_limits: <<allocation_limits, waldur_resource_limits>>
collect_limits(bc, waldur_limits) ==
  LET usage == get_usage_based_limits(bc)
      limit_based_components == {k \in DOMAIN bc : bc[k].accounting_type = "limit"}
      allocation_limits ==
        [c \in DOMAIN usage \cup limit_based_components |->
           IF c \in limit_based_components
             THEN waldur_limits[c] * bc[c].unit_factor
             ELSE usage[c]]
      waldur_resource_limits == [c \in limit_based_components |-> waldur_limits[c]]
  IN <<allocation_limits, waldur_resource_limits>>

\* limits handed on in control-plane units
converted_limits_unscaled(bc, limits) == limits

\* SlurmBackend.set_resource_limits: limits converted to native units
converted_limits(bc, limits) ==
  [key \in DOMAIN limits |-> limits[key] * bc[key].unit_factor]

\* the cluster's "modify account set GrpTRESMins=...": listed entries replace
\* the stored ones, the others stay
modify_account(stored, new) ==
  [c \in DOMAIN stored \cup DOMAIN new |-> IF c \in DOMAIN new THEN new[c] ELSE stored[c]]

\* ------------------------------------------------------ order processor

\* offering.backend_components as OfferingBaseProcessor.__init__ leaves them.
\* It ends with common_utils.extend_backend_components, which is not among
\* the sources; the components are those the configuration declares, and a
\* construction that raises (processor_init) leaves no processor to run.
DefaultComponents ==
  [c \in Components |->
     IF c = "cpu"
       THEN [accounting_type |-> "usage", unit_factor |-> 2, limit |-> 3]
       ELSE [accounting_type |-> "limit", unit_factor |-> 3, limit |-> 1]]

RequestedLimits == [c \in {"mem"} |-> 2]

OrderTemplates ==
  [type : {"Create"}, state : {"pending-provider", "executing"},
   limits : {EmptyDict}, uuid_ok : BOOLEAN]
  \cup [type : {"Update"}, state : {"pending-provider", "executing"},
        limits : {EmptyDict, [c \in {"mem"} |-> 1]}, uuid_ok : {TRUE}]
  \cup [type : {"Terminate"}, state : {"pending-provider", "executing"},
        limits : {EmptyDict}, uuid_ok : {TRUE}]

ProvisionedId(o) == IF o = "o1" THEN "a1" ELSE "a2"
AllBackendIds == FreshBackendIds \cup {ProvisionedId(o) : o \in Orders}

OrderOfferingUsers ==
  { [user_uuid |-> "u1", username |-> "alice", is_restricted |-> FALSE],
    [user_uuid |-> "u2", username |-> "bob", is_restricted |-> FALSE],
    [user_uuid |-> "u3", username |-> "", is_restricted |-> FALSE],
    [user_uuid |-> "u4", username |-> "carol", is_restricted |-> TRUE] }

NoSettings == [qos_downscaled |-> "", qos_paused |-> "", qos_default |-> ""]

\* the local variables of a membership pass that is not under way
NoFrame == [descriptors |-> <<>>, team_user_uuids |-> {}, to_add |-> {}, to_remove |-> {},
            todo |-> {}, username |-> ""]

\* the membership variables while no membership worker runs
MemberIdle ==
  /\ backend_settings = NoSettings
  /\ account_qos = [b \in {} |-> ""]
  /\ m_resources = [r \in {} |-> ""]
  /\ m_pc = "idle"
  /\ resource_report = <<>>
  /\ m_frame = NoFrame
  /\ sync = [r \in {} |-> ""]

\* the report variables while no report worker runs
ReportIdle ==
  /\ waldur_offering = [components |-> {}]
  /\ r_pc = "idle"
  /\ r_resource_report = <<>>
  /\ rep = [r \in {} |-> ""]

NoCall == [op |-> "none"]

\* the handler variables while no role-change event is served
NoEvent == [user_uuid |-> "", granted |-> FALSE, username |-> ""]
NoEventFrame == [descriptors |-> <<>>]
EventIdle ==
  /\ e_pc = "idle"
  /\ e_event = NoEvent
  /\ e_report = <<>>
  /\ e_op = NoCall
  /\ e_frame = NoEventFrame
  /\ e_done = {}
  /\ e_events = 0

\* the driver variables while a worker is driven directly
DriverIdle ==
  /\ d_offerings = [f \in {} |-> ""]
  /\ d_pc = "sleep"
  /\ d_queue = <<>>
  /\ d_log = [f \in {} |-> ""]
  /\ d_running = TRUE

\* the backend-call variables while the backend is not driven directly
BackendIdle ==
  /\ usage_lines = <<>>
  /\ b_call = NoCall
  /\ b_calls = 0

\* the order-worker variables while no order worker runs
OrderIdle ==
  /\ orders = [o \in {} |-> NoOrder]
  /\ resources = [o \in {} |-> NoResource]
  /\ pc = "idle" /\ queue = <<>> /\ order = NoOrder /\ attempts = 0 /\ passes = 0
  /\ fetched = [o \in {} |-> ""]
  /\ outcome = [o \in {} |-> ""]
  /\ transitions = [o \in {} |-> {}]
  /\ calls = [o \in {} |-> {}]
  /\ created = [o \in {} |-> NoResource]

InitOrderWith(i) ==
  /\ impl = i
  /\ offering_type \in {MARKETPLACE_SLURM_OFFERING_TYPE, "Marketplace.Basic"}
  /\ backend_components = DefaultComponents
  /\ homedir_enabled \in BOOLEAN
  /\ \E f \in [Orders -> OrderTemplates], restricted \in BOOLEAN :
       /\ orders = [o \in Orders |->
            [type |-> f[o].type, state |-> f[o].state, limits |-> f[o].limits,
             mr |-> f[o].type # "Create", alloc |-> f[o].type # "Create"]]
       /\ resources = [o \in Orders |->
            [uuid_ok |-> f[o].uuid_ok,
             restrict_member_access |-> restricted,
             state |-> IF f[o].type = "Create" THEN "Creating" ELSE "OK",
             backend_id |-> IF f[o].type = "Create" THEN "" ELSE ProvisionedId(o),
             limits |-> RequestedLimits,
             alloc_state |-> IF f[o].type = "Create" THEN "CREATING" ELSE "OK",
             alloc_backend_id |-> IF f[o].type = "Create" THEN "" ELSE ProvisionedId(o),
             alloc_limits |-> <<>>]]
       /\ accounts = {ProvisionedId(o) : o \in {x \in Orders : f[x].type # "Create"}}
  /\ team = [o \in Orders |-> {"u1", "u3", "u4"}]
  /\ offering_users = OrderOfferingUsers
  /\ account_limits = [b \in AllBackendIds |->
       IF b \in accounts THEN collect_limits(DefaultComponents, RequestedLimits)[1]
       ELSE EmptyDict]
  /\ associations = {<<"alice", b>> : b \in accounts}
  /\ pc = "idle" /\ queue = <<>> /\ order = NoOrder /\ attempts = 0 /\ passes = 0
  /\ fetched = [o \in Orders |-> "none"]
  /\ outcome = [o \in Orders |-> "none"]
  /\ transitions = [o \in Orders |-> {}]
  /\ calls = [o \in Orders |-> {}]
  /\ created = [o \in Orders |-> NoResource]
  /\ MemberIdle
  /\ BackendIdle
  /\ ReportIdle
  /\ EventIdle
  /\ DriverIdle

\* the order dict as the control plane returns it
Snap(ob, o) == [uuid |-> o, state |-> ob[o].state, mr |-> ob[o].mr, alloc |-> ob[o].alloc]

\* whether the Marketplace.Slurm-specific steps run
SlurmSteps ==
  IF impl = "processors" THEN offering_type = MARKETPLACE_SLURM_OFFERING_TYPE ELSE TRUE

\* where process_order goes after approval: the dispatch on order["type"] and
\* the loop conditions of _process_create_order
PhaseOf(type, snap) ==
  IF type = "Update" THEN "update"
  ELSE IF type = "Terminate" THEN "terminate"
  ELSE IF ~snap.mr THEN "wait_resource"
  ELSE IF SlurmSteps /\ ~snap.alloc THEN "wait_allocation"
  ELSE "create"

\* a wider state filter for list_orders
open_states_all == {"pending-provider", "executing", "done", "erred"}

\* the state filter process_offering passes to list_orders
open_states == {"pending-provider", "executing"}

\* OfferingOrderProcessor.process_offering: list the open orders
process_offering ==
  /\ pc = "idle"
  /\ passes < MaxPasses
  /\ passes' = passes + 1
  /\ queue' = SelectSeq([i \in 1..Len(OrderIds) |-> Snap(orders, OrderIds[i])],
                        LAMBDA s : s.state \in open_states)
  /\ pc' = IF queue' = <<>> THEN "idle" ELSE "loop"
  /\ UNCHANGED <<configVars, cpVars, clusterVars, order, attempts, historyVars>>

\* marking done whatever the handler returned
order_is_done_unless_raised(res) == res # "raise"

\* process_order: whether the order is marked done after the dispatch.
\* processors.py marks it when the handler returned True; agent_order_process.py
\* has no such flag and marks it whenever the handler returned.
order_is_done(res) ==
  \/ res = "true"
  \/ impl = "agent_order_process" /\ res \in {"timeout", "unexpected"}

\* the except clauses of process_order: whether set_state_erred is called for
\* the exception.  processors.py catches Exception; agent_order_process.py
\* calls it for BackendError only
erred_call(exc) ==
  /\ exc # "none"
  /\ impl = "processors" \/ exc = "backend"

\* no except clause at all: every exception leaves the loop
leaves_the_loop_always(exc, hf) == exc # "none"

\* whether an exception leaves the for loop of process_offering: the one
\* raised by set_state_erred inside the except clause and, in
\* agent_order_process.py, the one no except clause names
leaves_the_loop(exc, hf) ==
  \/ erred_call(exc) /\ hf
  \/ impl = "agent_order_process" /\ exc = "other"

\* The end of process_order: mark the order done, or handle the exception.
\*   res   "true" | "timeout" | "unexpected" | "raise"   what the handler did
\*   exc0  the exception raised by the handler ("none" unless res = "raise")
\*   ob,tr orders and transitions[o] after the handler's own effects
\*   q     the orders still to process
\*   df,hf whether set_state_done / set_state_erred itself raises
Finish(o, res, exc0, ob, tr, q, df, hf) ==
  LET wantDone == order_is_done(res)
      exc == IF res = "raise" THEN exc0
             ELSE IF wantDone /\ df THEN "waldur" ELSE "none"
      erredCall == erred_call(exc)
      propagates == leaves_the_loop(exc, hf)
      markedDone == wantDone /\ exc = "none"
      markedErred == erredCall /\ ~hf
  IN /\ wantDone \/ ~df
     /\ erredCall \/ ~hf
     /\ orders' = IF markedDone THEN [ob EXCEPT ![o].state = "done"]
                  ELSE IF markedErred THEN [ob EXCEPT ![o].state = "erred"]
                  ELSE ob
     /\ transitions' = [transitions EXCEPT ![o] =
           tr \cup (IF markedDone THEN {"done"} ELSE {})
              \cup (IF markedErred THEN {"erred"} ELSE {})
              \cup (IF erredCall /\ hf THEN {"erred_failed"} ELSE {})]
     /\ outcome' = [outcome EXCEPT ![o] =
           IF res = "raise" THEN exc0
           ELSE IF res = "true" /\ df THEN "done_failed"
           ELSE res]
     /\ queue' = IF propagates THEN <<>> ELSE q
     /\ pc' = IF queue' = <<>> THEN "idle" ELSE "loop"
     /\ order' = NoOrder
     /\ attempts' = 0

\* process_order goes on to the dispatch
Continue(o, snap, ob, tr, q) ==
  /\ orders' = ob
  /\ transitions' = [transitions EXCEPT ![o] = tr]
  /\ outcome' = [outcome EXCEPT ![o] = "none"]
  /\ queue' = q
  /\ order' = snap
  /\ attempts' = 0
  /\ pc' = PhaseOf(ob[o].type, snap)

\* approving whatever state the order was fetched in
needs_approval_always(snap) == TRUE

\* process_order: an order fetched as executing is not approved
needs_approval(snap) == snap.state # "executing"

\* process_order, first part: approve and refresh an order not yet executing
process_order ==
  /\ pc = "loop"
  /\ LET snap == Head(queue)
         o == snap.uuid
         q == Tail(queue)
     IN /\ fetched' = [fetched EXCEPT ![o] = snap.state]
        /\ calls' = [calls EXCEPT ![o] = {}]
        /\ created' = [created EXCEPT ![o] = NoResource]
        /\ UNCHANGED <<configVars, resources, team, offering_users, clusterVars, passes>>
        /\ IF ~needs_approval(snap)
             THEN Continue(o, snap, orders, {}, q)
             ELSE \E fp \in 0..2, hf \in BOOLEAN :
                    LET ob == IF fp = 1 THEN orders
                              ELSE [orders EXCEPT ![o].state = "executing"]
                        tr == IF fp = 1 THEN {} ELSE {"approve"}
                    IN IF fp = 0
                         THEN ~hf /\ Continue(o, Snap(ob, o), ob, tr, q)
                         ELSE Finish(o, "raise", "waldur", ob, tr, q, FALSE, hf)

\* _process_create_order, one iteration of the first wait loop
wait_for_resource ==
  /\ pc = "wait_resource"
  /\ LET o == order.uuid
     IN /\ UNCHANGED <<configVars, resources, team, offering_users, clusterVars, passes,
                       fetched, calls, created>>
        /\ \E ok, df, hf \in BOOLEAN :
             IF attempts > max_attempts
               THEN ok /\ Finish(o, "timeout", "none", orders, transitions[o], queue, df, hf)
             ELSE IF order.state # "executing"
               THEN ok /\ Finish(o, "unexpected", "none", orders, transitions[o], queue, df, hf)
             ELSE IF ~ok
               THEN ~df /\ Finish(o, "raise", "waldur", orders, transitions[o], queue, FALSE, hf)
             ELSE /\ ~df /\ ~hf
                  /\ order' = Snap(orders, o)
                  /\ pc' = PhaseOf("Create", Snap(orders, o))
                  /\ attempts' = IF orders[o].mr THEN 0 ELSE attempts + 1
                  /\ UNCHANGED <<orders, transitions, outcome, queue>>

\* _process_create_order, one iteration of the second wait loop
wait_for_allocation ==
  /\ pc = "wait_allocation"
  /\ LET o == order.uuid
     IN /\ UNCHANGED <<configVars, resources, team, offering_users, clusterVars, passes,
                       fetched, calls, created>>
        /\ \E ok, df, hf \in BOOLEAN :
             IF attempts > max_attempts
               THEN ok /\ Finish(o, "timeout", "none", orders, transitions[o], queue, df, hf)
             ELSE IF order.state # "executing"
               THEN ok /\ Finish(o, "unexpected", "none", orders, transitions[o], queue, df, hf)
             ELSE IF ~ok
               THEN ~df /\ Finish(o, "raise", "waldur", orders, transitions[o], queue, FALSE, hf)
             ELSE /\ ~df /\ ~hf
                  /\ order' = Snap(orders, o)
                  /\ pc' = PhaseOf("Create", Snap(orders, o))
                  /\ attempts' = IF orders[o].alloc THEN 0 ELSE attempts + 1
                  /\ UNCHANGED <<orders, transitions, outcome, queue>>

\* the usernames _add_users_to_resource passes to the backend
order_usernames(o) ==
  IF impl = "processors"
    THEN {ou.username : ou \in {x \in offering_users :
             /\ ~x.is_restricted
             /\ x.user_uuid \in team[o]
             /\ x.username # ""}}
    ELSE {ou.username : ou \in {x \in offering_users : x.user_uuid \in team[o]}}

\* users holding an association on an account
account_users(assoc, account) == {a[1] : a \in {x \in assoc : x[2] = account}}

\* BaseBackend.add_users_to_resource: the usernames that get a new association
added_users(assoc, account, user_ids) == user_ids \ account_users(assoc, account)

\* a homedir call made, and failing, whether or not a user was added
homedirs_raise_always(enabled, added) == enabled

\* SlurmBackend.add_users_to_resource after the associations are made:
\* _create_user_homedirs calls client.create_linux_user_homedir(username, umask)
\* for each added user, and the client method takes the username only, so the
\* first call raises TypeError, which the except BackendError clause lets through
homedirs_raise(enabled, added) == enabled /\ added # {}

\* BaseBackend.create_resource: the Resource it returns for the account bid
create_resource(bc, waldur_resource, o, bid) ==
  [backend_id |-> bid,
   limits |-> collect_limits(bc, waldur_resource.limits)[2],
   marketplace_uuid |-> o]

\* persisting the marketplace uuid in place of the backend id
backend_id_to_persist_uuid(backend_resource) == backend_resource.marketplace_uuid

\* _create_resource: the id written by the set-backend-id calls
backend_id_to_persist(backend_resource) == backend_resource.backend_id

\* no check of the resource uuid
is_uuid_unchecked(waldur_resource) == TRUE

\* _create_resource: is_uuid(waldur_resource["uuid"]); the model keeps the
\* well-formedness of the uuid as a flag of the resource
is_uuid(waldur_resource) == waldur_resource.uuid_ok

\* every call made, whichever call raised before it
reached_whatever_raised(fp, k) == TRUE

\* the calls of a handler run one after another: call k is reached when no
\* call before it raised
reached(fp, k) == fp = 0 \/ fp >= k

\* _process_create_order after the wait loops, with _create_resource and
\* _add_users_to_resource.  The calls, in order:
\*   1 get resource            6 set_slurm_allocation_limits
\*   2 set allocation CREATING 7 set allocation OK
\*   3 backend create_resource 8 get team
\*   4 set backend id          9 list offering users
\*   5 set allocation backend id  10 backend add_users_to_resource
\* fp is the call that raises (0: none); bid is the id create_resource returns.
create_order ==
  /\ pc = "create"
  /\ LET o == order.uuid
         r == resources[o]
         lim == collect_limits(backend_components, r.limits)
     IN \E fp \in 0..9, bid \in (FreshBackendIds \ accounts) \cup {""}, df, hf \in BOOLEAN :
          LET app(k) == CASE k = 2 -> r.state # "Creating" /\ SlurmSteps
                          [] k \in {1, 3, 4} -> TRUE
                          [] OTHER -> SlurmSteps
              reach(k) == /\ reached(fp, k)
                          /\ k > 1 => is_uuid(r)
                          /\ k > 3 => bid # ""
              tried(k) == app(k) /\ reach(k)
              did(k) == tried(k) /\ fp # k
              backend_resource == create_resource(backend_components, r, o, bid)
              usernames == order_usernames(o)
              added == added_users(associations, bid, usernames)
              homedirs == did(10) /\ homedirs_raise(homedir_enabled, added)
              exc == IF fp # 0 THEN (IF fp = 3 THEN "backend" ELSE "waldur")
                     ELSE IF ~is_uuid(r) \/ bid = "" THEN "backend"
                     ELSE IF homedirs THEN "other"
                     ELSE "none"
          IN /\ fp # 0 => tried(fp)
             /\ did(3) \/ bid = ""
             /\ accounts' = IF did(3) /\ bid # "" THEN accounts \cup {bid} ELSE accounts
             /\ account_limits' = IF did(3) /\ bid # ""
                                    THEN [account_limits EXCEPT ![bid] = lim[1]]
                                    ELSE account_limits
             /\ created' = [created EXCEPT ![o] =
                   IF did(3) THEN backend_resource ELSE NoResource]
             /\ resources' = [resources EXCEPT ![o] =
                   [r EXCEPT
                      !.backend_id = IF did(4) THEN backend_id_to_persist(backend_resource)
                                     ELSE @,
                      !.alloc_backend_id = IF did(5)
                                             THEN backend_id_to_persist(backend_resource)
                                             ELSE @,
                      !.alloc_limits = IF did(6) THEN Append(@, backend_resource.limits)
                                       ELSE @,
                      !.alloc_state = IF did(7) THEN "OK"
                                      ELSE IF did(2) THEN "CREATING" ELSE @]]
             /\ associations' = IF did(10)
                                  THEN associations \cup {<<u, bid>> : u \in added}
                                  ELSE associations
             /\ calls' = [calls EXCEPT ![o] =
                   @ \cup (IF tried(3) THEN {"create_resource"} ELSE {})
                     \cup (IF tried(10) THEN {"add_users_to_resource"} ELSE {})]
             /\ Finish(o, IF exc = "none" THEN "true" ELSE "raise", exc,
                       orders, transitions[o], queue, df, hf)
             /\ UNCHANGED <<configVars, team, offering_users, passes, fetched>>

\* _process_update_order.  The calls, in order:
\*   1 get resource  2 set allocation UPDATING  3 backend set_resource_limits
\*   4 set allocation OK
update_order ==
  /\ pc = "update"
  /\ LET o == order.uuid
         r == resources[o]
         new_limits == orders[o].limits
     IN \E fp \in 0..4, df, hf \in BOOLEAN :
          LET app(k) == CASE k = 1 -> TRUE
                          [] k = 3 -> impl = "agent_order_process" \/ new_limits # EmptyDict
                          [] OTHER -> SlurmSteps
              tried(k) == app(k) /\ (fp = 0 \/ fp >= k)
              did(k) == tried(k) /\ fp # k
              exc == IF fp = 0 THEN "none" ELSE IF fp = 3 THEN "backend" ELSE "waldur"
          IN /\ fp # 0 => tried(fp)
             /\ account_limits' = IF did(3)
                   THEN [account_limits EXCEPT ![r.backend_id] =
                           modify_account(@, converted_limits(backend_components, new_limits))]
                   ELSE account_limits
             /\ resources' = [resources EXCEPT ![o].alloc_state =
                   IF did(4) THEN "OK" ELSE IF did(2) THEN "UPDATING" ELSE @]
             /\ calls' = [calls EXCEPT ![o] =
                   @ \cup (IF tried(3) THEN {"set_resource_limits"} ELSE {})]
             /\ Finish(o, IF exc = "none" THEN "true" ELSE "raise", exc,
                       orders, transitions[o], queue, df, hf)
             /\ UNCHANGED <<configVars, team, offering_users, accounts, associations,
                            passes, fetched, created>>

\* _process_terminate_order.  The calls: 1 get resource  2 backend delete_resource
\* delete_resource ends in SlurmClient.delete_account, which removes the users
\* of the account with one command and the account with the next: when
\* delete_resource raises, late tells that it is the last command that
\* failed, with the users of the account already removed.
terminate_order ==
  /\ pc = "terminate"
  /\ LET o == order.uuid
         r == resources[o]
     IN \E fp \in 0..2, late, df, hf \in BOOLEAN :
          LET did2 == fp = 0
              exc == IF fp = 0 THEN "none" ELSE IF fp = 2 THEN "backend" ELSE "waldur"
              users_removed ==
                late /\ (\E a \in associations : a[2] = r.backend_id /\ a[1] # "")
          IN /\ late => fp = 2 /\ r.backend_id \in accounts
             /\ accounts' = IF did2 THEN accounts \ {r.backend_id} ELSE accounts
             /\ associations' = IF did2 \/ users_removed
                   THEN {a \in associations : a[2] # r.backend_id}
                   ELSE associations
             /\ calls' = [calls EXCEPT ![o] =
                   @ \cup (IF fp # 1 THEN {"delete_resource"} ELSE {})]
             /\ Finish(o, IF exc = "none" THEN "true" ELSE "raise", exc,
                       orders, transitions[o], queue, df, hf)
             /\ UNCHANGED <<configVars, resources, team, offering_users, account_limits,
                            passes, fetched, created>>

\* control plane: the marketplace resource of an executing Create order appears
materialize_resource ==
  \E o \in Orders :
    /\ orders[o].type = "Create"
    /\ orders[o].state = "executing"
    /\ ~orders[o].mr
    /\ orders' = [orders EXCEPT ![o].mr = TRUE]
    /\ UNCHANGED <<configVars, resources, team, offering_users, clusterVars,
                   workerVars, historyVars>>

\* control plane: the allocation behind the marketplace resource appears
materialize_allocation ==
  \E o \in Orders :
    /\ orders[o].mr
    /\ ~orders[o].alloc
    /\ offering_type = MARKETPLACE_SLURM_OFFERING_TYPE
    /\ orders' = [orders EXCEPT ![o].alloc = TRUE]
    /\ UNCHANGED <<configVars, resources, team, offering_users, clusterVars,
                   workerVars, historyVars>>

NextOrder ==
  \/ process_offering /\ UNCHANGED <<memberVars, backendVars, reportVars, eventVars, driverVars>>
  \/ process_order /\ UNCHANGED <<memberVars, backendVars, reportVars, eventVars, driverVars>>
  \/ wait_for_resource /\ UNCHANGED <<memberVars, backendVars, reportVars, eventVars, driverVars>>
  \/ wait_for_allocation /\ UNCHANGED <<memberVars, backendVars, reportVars, eventVars, driverVars>>
  \/ create_order /\ UNCHANGED <<memberVars, backendVars, reportVars, eventVars, driverVars>>
  \/ update_order /\ UNCHANGED <<memberVars, backendVars, reportVars, eventVars, driverVars>>
  \/ terminate_order /\ UNCHANGED <<memberVars, backendVars, reportVars, eventVars, driverVars>>
  \/ materialize_resource /\ UNCHANGED <<memberVars, backendVars, reportVars, eventVars, driverVars>>
  \/ materialize_allocation /\ UNCHANGED <<memberVars, backendVars, reportVars, eventVars, driverVars>>

InitOrder == InitOrderWith("processors")
InitOrderBoth == InitOrderWith("processors") \/ InitOrderWith("agent_order_process")
SpecOrder == InitOrder /\ [][NextOrder]_vars

InitOrderLegacy == InitOrderWith("agent_order_process")
SpecOrderLegacy == InitOrderLegacy /\ [][NextOrder]_vars

\* ------------------------------------------------ the membership worker
\* processors.OfferingMembershipProcessor, one sequential worker

UserIds == {"ua", "ub", "uc", "ud"}
OwnUsername(u) ==
  CASE u = "ua" -> "alice" [] u = "ub" -> "bob" [] u = "uc" -> "carol" [] OTHER -> "dave"
ResourceIds == <<"r1">>
AllResourceIds == <<"r1", "r2">>
MemberResources == {ResourceIds[i] : i \in 1..Len(ResourceIds)}
AccountOf(r) == IF r = "r1" THEN "a1" ELSE "a2"
QosSettings == [qos_downscaled |-> "limited", qos_paused |-> "paused", qos_default |-> "normal"]
NoSync ==
  [processed |-> FALSE, local_usernames |-> {}, add_called |-> FALSE, add |-> {},
   added |-> {}, remove_called |-> FALSE, remove |-> {}, exc |-> "none",
   qos_op |-> "none", qos_done |-> FALSE]

offering_user(u, name, restricted) ==
  [user_uuid |-> u, username |-> name, is_restricted |-> restricted]

\* the offering-user populations: bob may have none, carol's username may
\* be blank, dave's offering user may be restricted
MemberOfferingUsers ==
  {{offering_user("ua", "alice", FALSE),
    offering_user("uc", cname, FALSE),
    offering_user("ud", "dave", drestricted)}
     \cup (IF bpresent THEN {offering_user("ub", "bob", FALSE)} ELSE {}) :
   cname \in {"carol", ""}, drestricted \in BOOLEAN, bpresent \in BOOLEAN}

InitMember ==
  /\ impl = "processors"
  /\ offering_type = MARKETPLACE_SLURM_OFFERING_TYPE
  /\ backend_components = DefaultComponents
  /\ homedir_enabled \in BOOLEAN
  /\ OrderIdle
  /\ BackendIdle
  /\ ReportIdle
  /\ EventIdle
  /\ DriverIdle
  /\ team \in [MemberResources -> SUBSET UserIds]
  /\ offering_users \in MemberOfferingUsers
  /\ accounts = {AccountOf(r) : r \in MemberResources}
  /\ account_limits = [b \in accounts |-> EmptyDict]
  /\ \E L \in [MemberResources -> SUBSET {OwnUsername(u) : u \in UserIds}] :
       associations = UNION {{<<n, AccountOf(r)>> : n \in L[r]} : r \in MemberResources}
  /\ backend_settings \in {QosSettings, NoSettings}
  /\ account_qos = [b \in accounts |-> "normal"]
  /\ \E restricted, paused, downscaled \in [MemberResources -> BOOLEAN] :
       m_resources = [r \in MemberResources |->
         [state |-> "OK", backend_id |-> AccountOf(r),
          restrict_member_access |-> restricted[r], paused |-> paused[r],
          downscaled |-> downscaled[r], backend_metadata |-> "none"]]
  /\ m_pc = "idle"
  /\ resource_report = <<>>
  /\ m_frame = NoFrame
  /\ sync = [r \in MemberResources |-> NoSync]

\* SlurmClient.list_account_users: the association lines that name a user
list_account_users(assoc, account) == account_users(assoc, account) \ {""}

RECURSIVE pull_resources(_, _, _)
\* BaseBackend.pull_resources: one Resource per descriptor whose account
\* exists on the cluster, in the order of the descriptors
pull_resources(descriptors, accts, assoc) ==
  IF descriptors = <<>> THEN <<>>
  ELSE LET d == Head(descriptors)
           rest == pull_resources(Tail(descriptors), accts, assoc)
       IN IF d.backend_id \in accts
            THEN <<[d EXCEPT !.users = list_account_users(assoc, d.backend_id)]>> \o rest
            ELSE rest

\* the resources of the offering in the order the control plane lists them
listed_ids(mr) == SelectSeq(AllResourceIds, LAMBDA r : r \in DOMAIN mr)

RECURSIVE get_waldur_resources(_, _)
\* _get_waldur_resources: the Resource descriptors of the offering's
\* resources in state OK
get_waldur_resources(ids, mr) ==
  IF ids = <<>> THEN <<>>
  ELSE LET r == Head(ids)
           rest == get_waldur_resources(Tail(ids), mr)
       IN IF mr[r].state = "OK"
            THEN <<[marketplace_uuid |-> r, backend_id |-> mr[r].backend_id,
                    restrict_member_access |-> mr[r].restrict_member_access,
                    downscaled |-> mr[r].downscaled, paused |-> mr[r].paused,
                    users |-> {}]>> \o rest
            ELSE rest

\* list_remote_offering_users with is_restricted False
unrestricted_offering_users(ous) == {x \in ous : ~x.is_restricted}

\* the usernames of offering users present on the cluster, whoever they are
existing_offering_user_usernames_any(ous, local_usernames, team_user_uuids) ==
  {x.username : x \in {y \in ous : y.username \in local_usernames}}

\* _sync_slurm_resource_users, restricted resource: the usernames to remove
existing_offering_user_usernames(ous, local_usernames, team_user_uuids) ==
  {x.username : x \in {y \in ous : /\ y.username \in local_usernames
                                   /\ y.user_uuid \in team_user_uuids}}

\* the usernames of every offering user missing on the cluster
new_offering_user_usernames_any(ous, local_usernames, team_user_uuids) ==
  {x.username : x \in {y \in ous : y.username \notin local_usernames}}

\* _sync_slurm_resource_users: the usernames to add
new_offering_user_usernames(ous, local_usernames, team_user_uuids) ==
  {x.username : x \in {y \in ous : /\ y.username \notin local_usernames
                                   /\ y.user_uuid \in team_user_uuids}}

\* every local username that no team member's offering user carries
stale_offering_user_usernames_untied(ous, local_usernames, team_user_uuids) ==
  {n \in local_usernames :
     ~\E y \in ous : y.username = n /\ y.user_uuid \in team_user_uuids}

\* _sync_slurm_resource_users: the usernames to remove
stale_offering_user_usernames(ous, local_usernames, team_user_uuids) ==
  {x.username : x \in {y \in ous : /\ y.username \in local_usernames
                                   /\ y.user_uuid \notin team_user_uuids}}

\* BaseBackend.remove_users_from_account: the associations left
remove_users_from_account(assoc, account, usernames) ==
  assoc \ {<<n, account>> : n \in usernames}

\* _sync_resource: the operation the scaling flags select and its QoS name
qos_operation(resource, settings) ==
  IF resource.paused THEN <<"pause", settings.qos_paused>>
  ELSE IF resource.downscaled THEN <<"downscale", settings.qos_downscaled>>
  ELSE <<"restore", settings.qos_default>>

\* OfferingMembershipProcessor.process_offering: list the OK resources and
\* pull them from the cluster; listed fails when the control plane errs
m_process_offering ==
  /\ m_pc = "idle"
  /\ passes < MaxPasses
  /\ passes' = passes + 1
  /\ \E listed \in BOOLEAN :
       LET report == pull_resources(get_waldur_resources(listed_ids(m_resources), m_resources),
                                    accounts, associations)
       IN /\ resource_report' = IF listed THEN report ELSE <<>>
          /\ m_pc' = IF listed /\ report # <<>> THEN "resources" ELSE "idle"
  /\ UNCHANGED <<configVars, cpVars, clusterVars, pc, queue, order, attempts,
                 historyVars, backend_settings, m_frame, account_qos, m_resources, sync,
                 backendVars, reportVars, eventVars, driverVars>>

\* SlurmBackend.downscale_resource with a downscaling QoS configured: it calls
\* client.set_account_qos, a method SlurmClient does not have, so the call
\* raises AttributeError before any command is issued
downscale_raises(qos) == qos[1] = "downscale" /\ qos[2] # ""

\* _process_resource on the next pulled resource, with
\* _sync_slurm_resource_users and _sync_resource.  The calls, in order:
\*   1 get team                 4 backend remove_users_from_account
\*   2 list offering users      5 backend pause / downscale / restore
\*   3 backend add_users_to_resource (skipped when restricted)
\*   6 set backend metadata
\* fp is the call that raises (0: none); the homedir call after 3 and the
\* downscale call raise by themselves.  Nothing else runs beside the worker
\* here, so the calls of one resource are one step.
m_process_resource ==
  /\ m_pc = "resources"
  /\ LET resource == Head(resource_report)
         r == resource.marketplace_uuid
         account == resource.backend_id
         local_usernames == resource.users
         team_user_uuids == team[r]
         ous == unrestricted_offering_users(offering_users)
         restricted == resource.restrict_member_access
         to_add == new_offering_user_usernames(ous, local_usernames, team_user_uuids)
         to_remove ==
           IF restricted
             THEN existing_offering_user_usernames(ous, local_usernames, team_user_uuids)
             ELSE stale_offering_user_usernames(ous, local_usernames, team_user_uuids)
         added == added_users(associations, account, to_add)
         qos == qos_operation(resource, backend_settings)
     IN \E fp \in {0, 1, 2, 5, 6} :
          LET homedirs == ~restricted /\ homedirs_raise(homedir_enabled, added)
              reach(k) == /\ fp = 0 \/ fp >= k
                          /\ k > 3 => ~homedirs
              attr == ~homedirs /\ downscale_raises(qos)
              tried(k) == /\ reach(k)
                          /\ (k = 3 => ~restricted)
                          /\ (k = 5 => qos[2] # "")
                          /\ (k = 6 => ~attr)
              did(k) == tried(k) /\ fp # k /\ (k = 5 => ~attr)
              exc == IF fp \in {1, 2, 6} THEN "waldur"
                     ELSE IF fp = 5 THEN "backend"
                     ELSE IF tried(3) /\ homedirs THEN "other"
                     ELSE IF tried(5) /\ attr THEN "other"
                     ELSE "none"
              assoc1 == IF tried(3) THEN associations \cup {<<n, account>> : n \in added}
                        ELSE associations
          IN /\ fp # 0 => tried(fp)
             /\ fp = 5 => ~attr
             /\ associations' = IF tried(4)
                                  THEN remove_users_from_account(assoc1, account, to_remove)
                                  ELSE assoc1
             /\ account_qos' = IF did(5) THEN [account_qos EXCEPT ![account] = qos[2]]
                               ELSE account_qos
             /\ m_resources' = [m_resources EXCEPT ![r] =
                   IF exc # "none" THEN [@ EXCEPT !.state = "Erred"]
                   ELSE [@ EXCEPT !.backend_metadata = account_qos'[account]]]
             /\ sync' = [sync EXCEPT ![r] =
                   [processed |-> TRUE, local_usernames |-> local_usernames,
                    add_called |-> tried(3), add |-> IF tried(3) THEN to_add ELSE {},
                    added |-> IF tried(3) THEN added ELSE {},
                    remove_called |-> tried(4),
                    remove |-> IF tried(4) THEN to_remove ELSE {},
                    exc |-> exc,
                    qos_op |-> IF reach(5) THEN qos[1] ELSE "none",
                    qos_done |-> did(5)]]
  /\ resource_report' = Tail(resource_report)
  /\ m_pc' = IF Tail(resource_report) = <<>> THEN "idle" ELSE "resources"
  /\ UNCHANGED <<configVars, cpVars, accounts, account_limits, workerVars,
                 historyVars, backend_settings, m_frame, backendVars, reportVars, eventVars, driverVars>>

NextMember ==
  \/ m_process_offering
  \/ m_process_resource

SpecMember == InitMember /\ [][NextMember]_vars

Terminal == {"done", "erred"}
Rank(st) == CASE st = "pending-provider" -> 0 [] st = "executing" -> 1 [] OTHER -> 2

\* C1: an order's state only advances along pending-provider -> executing ->
\* {done, erred}, and an order in done or erred never changes state again.
OrderStateMonotonic ==
  [][\A o \in Orders :
       /\ Rank(orders'[o].state) >= Rank(orders[o].state)
       /\ orders[o].state \in Terminal => orders'[o].state = orders[o].state]_vars

\* C1 witness: one order was approved by a pass and then marked done, the
\* other ended erred
OrderStateMonotonicWitness ==
  \E o, p \in Orders :
    /\ fetched[o] = "pending-provider"
    /\ orders[o].state = "done"
    /\ orders[p].state = "erred"
    /\ passes = MaxPasses

\* ---------------------------------------------------------------- C2
\* C2 as stated: after a Create order timed out waiting for its resource id,
\* the order is in the state the pass fetched it in, no backend call was made
\* for it and it was not marked erred.
TimeoutKeepsFetchedState ==
  \A o \in Orders :
    outcome[o] = "timeout" =>
      /\ orders[o].state = fetched[o]
      /\ calls[o] = {}
      /\ "erred" \notin transitions[o]

\* C2 amended: after the timeout the order is executing (approved by the pass
\* exactly when it was fetched as pending-provider), no backend call was made
\* for it, and it was marked neither erred nor done.
TimeoutLeavesOrderExecuting ==
  \A o \in Orders :
    outcome[o] = "timeout" =>
      /\ orders[o].state = "executing"
      /\ transitions[o] = IF fetched[o] = "pending-provider" THEN {"approve"} ELSE {}
      /\ calls[o] = {}

\* C2 witness: an order fetched as pending-provider timed out
TimeoutWitness ==
  \E o \in Orders :
    /\ outcome[o] = "timeout"
    /\ fetched[o] = "pending-provider"
    /\ orders[o].type = "Create"

\* ---------------------------------------------------------------- C3
\* C3: when a Create order ends done, the control-plane resource carries the
\* backend id that create_resource returned, and the limits record pushed
\* last to the control plane is the limits of the created backend resource
\* (pushed for a Marketplace.Slurm offering; no push for another offering type).
CreateDonePersistsBackendResource ==
  \A o \in Orders :
    (orders[o].type = "Create" /\ orders[o].state = "done") =>
      /\ created[o].backend_id # ""
      /\ created[o].backend_id \in accounts
      /\ resources[o].backend_id = created[o].backend_id
      /\ IF offering_type = MARKETPLACE_SLURM_OFFERING_TYPE
           THEN /\ resources[o].alloc_limits # <<>>
                /\ resources[o].alloc_limits[Len(resources[o].alloc_limits)]
                     = created[o].limits
                /\ resources[o].alloc_backend_id = created[o].backend_id
           ELSE resources[o].alloc_limits = <<>>

\* C3 witness: a Create order of a Marketplace.Slurm offering is done and its
\* limits were pushed
CreateDoneWitness ==
  \E o \in Orders :
    /\ orders[o].type = "Create"
    /\ orders[o].state = "done"
    /\ offering_type = MARKETPLACE_SLURM_OFFERING_TYPE
    /\ resources[o].alloc_limits = <<RequestedLimits>>
    /\ resources[o].backend_id \in FreshBackendIds

\* ---------------------------------------------------------------- C4
\* C4: an Update order with empty limits whose handler returned makes no
\* set_resource_limits call and is marked done, not erred.
EmptyUpdateIsNoOp ==
  \A o \in Orders :
    (orders[o].type = "Update" /\ orders[o].limits = EmptyDict /\ outcome[o] = "true") =>
      /\ "set_resource_limits" \notin calls[o]
      /\ orders[o].state = "done"
      /\ "erred" \notin transitions[o]

\* ----------------------------------- the backend driven directly: users
\* SlurmBackend.add_users_to_resource and remove_users_from_account called
\* one after another on a cluster with two accounts

MaxCalls == 3
BackendAccounts == {"a1", "a2"}
BackendUsernames == {"alice", "bob", "carol"}

\* the configuration and control-plane variables of a backend-only run
BackendConfig ==
  /\ impl = "processors"
  /\ offering_type = MARKETPLACE_SLURM_OFFERING_TYPE
  /\ team = [r \in {} |-> {}]
  /\ offering_users = {}
  /\ OrderIdle
  /\ MemberIdle
  /\ ReportIdle
  /\ EventIdle
  /\ DriverIdle

InitUsers ==
  /\ BackendConfig
  /\ backend_components = DefaultComponents
  /\ homedir_enabled \in BOOLEAN
  /\ accounts = BackendAccounts
  /\ account_limits = [b \in accounts |-> EmptyDict]
  /\ associations \in SUBSET (BackendUsernames \X BackendAccounts)
  /\ BackendIdle

\* whether a call repeats the previous one
repeats(op, account, args) ==
  /\ b_call.op = op
  /\ b_call.account = account
  /\ b_call.args = args

\* SlurmBackend.add_users_to_resource(account, user_ids)
b_add_users_to_resource ==
  /\ b_calls < MaxCalls
  /\ \E account \in accounts, user_ids \in SUBSET BackendUsernames :
       LET added == added_users(associations, account, user_ids)
           raised == homedirs_raise(homedir_enabled, added)
       IN /\ associations' = associations \cup {<<n, account>> : n \in added}
          /\ b_call' = [op |-> "add_users_to_resource", account |-> account,
                        args |-> user_ids, before |-> associations,
                        created |-> added,
                        returned |-> IF raised THEN {} ELSE added,
                        error |-> IF raised THEN "TypeError" ELSE "none",
                        repeated |-> repeats("add_users_to_resource", account, user_ids),
                        first_created |->
                          IF repeats("add_users_to_resource", account, user_ids)
                            THEN b_call.created ELSE {}]
  /\ b_calls' = b_calls + 1
  /\ UNCHANGED <<configVars, cpVars, accounts, account_limits, workerVars, historyVars,
                 memberVars, usage_lines, reportVars, eventVars, driverVars>>

\* BaseBackend.remove_users_from_account(account, usernames)
b_remove_users_from_account ==
  /\ b_calls < MaxCalls
  /\ \E account \in accounts, usernames \in SUBSET BackendUsernames :
       /\ associations' = remove_users_from_account(associations, account, usernames)
       /\ b_call' = [op |-> "remove_users_from_account", account |-> account,
                     args |-> usernames, before |-> associations, created |-> {},
                     returned |-> {}, error |-> "none",
                     repeated |-> repeats("remove_users_from_account", account, usernames),
                     first_created |-> {}]
  /\ b_calls' = b_calls + 1
  /\ UNCHANGED <<configVars, cpVars, accounts, account_limits, workerVars, historyVars,
                 memberVars, usage_lines, reportVars, eventVars, driverVars>>

NextUsers ==
  \/ b_add_users_to_resource
  \/ b_remove_users_from_account

SpecUsers == InitUsers /\ [][NextUsers]_vars

\* C8: a call of add_users_to_resource that repeats the previous call, with
\* the same account and the same usernames, raises no error, creates no
\* association and returns the empty set, and leaves the grants as the first
\* call left them.
AddUsersTwiceIsIdempotent ==
  (b_call.op = "add_users_to_resource" /\ b_call.repeated) =>
    /\ b_call.error = "none"
    /\ b_call.created = {}
    /\ b_call.returned = {}
    /\ associations = b_call.before
    /\ \A n \in b_call.args : <<n, b_call.account>> \in associations

AddUsersTwiceWitness ==
  /\ b_call.op = "add_users_to_resource"
  /\ b_call.repeated
  /\ b_call.first_created # {}
  /\ b_call.first_created # b_call.args
  /\ homedir_enabled

\* ----------------------------------- the backend driven directly: usage
\* SlurmBackend._get_usage_report over the sacct lines of the month.  A
\* converted usage value is the quotient of the native value by the unit
\* factor of its component, held here as a fraction in lowest terms.

MaxLines == 3
MaxUsage == 2
MaxFactor == 3
UsageUsers == {"alice", "bob"}
TOTAL_ACCOUNT_USAGE == "TOTAL_ACCOUNT_USAGE"

\* DefaultComponents with the unit factor of cpu set
ComponentsWith(cpu_factor) ==
  [DefaultComponents EXCEPT !["cpu"].unit_factor = cpu_factor]

InitUsage ==
  /\ BackendConfig
  /\ \E f \in 1..MaxFactor : backend_components = ComponentsWith(f)
  /\ homedir_enabled = TRUE
  /\ accounts = BackendAccounts
  /\ account_limits = [b \in accounts |-> EmptyDict]
  /\ associations = {}
  /\ BackendIdle

RECURSIVE gcd(_, _)
gcd(a, b) == IF b = 0 THEN a ELSE gcd(b, a % b)

\* the quotient n / d as a fraction in lowest terms
quotient(n, d) ==
  LET g == gcd(n, d)
  IN [num |-> n \div g, den |-> d \div g]

\* the sum of two fractions
plus(x, y) == quotient(x.num * y.den + y.num * x.den, x.den * y.den)

\* slurm_backend/utils.convert_slurm_units_to_waldur_ones: the native value
\* divided by the unit factor of its component, to whole units when to_int
convert_slurm_units_to_waldur_ones(bc, units, to_int) ==
  [c \in DOMAIN units |->
     IF to_int THEN units[c] \div bc[c].unit_factor
     ELSE quotient(units[c], bc[c].unit_factor)]

RECURSIVE sum_dicts(_)
\* backends/utils.sum_dicts: the component-wise sum of a sequence of dicts
sum_dicts(dicts) ==
  IF dicts = <<>> THEN EmptyDict
  ELSE LET d == Head(dicts)
           rest == sum_dicts(Tail(dicts))
       IN [c \in DOMAIN d \cup DOMAIN rest |->
             (IF c \in DOMAIN d THEN d[c] ELSE 0)
             + (IF c \in DOMAIN rest THEN rest[c] ELSE 0)]

RECURSIVE values_of(_)
\* list(account_usage.values())
values_of(f) ==
  IF DOMAIN f = {} THEN <<>>
  ELSE LET k == CHOOSE x \in DOMAIN f : TRUE
       IN <<f[k]>> \o values_of([x \in DOMAIN f \ {k} |-> f[x]])

\* the total taken from the first user only
account_total_first(usages_per_user) ==
  IF DOMAIN usages_per_user = {} THEN EmptyDict
  ELSE Head(values_of(usages_per_user))

\* _get_usage_report: the native total of an account
account_total(usages_per_user) == sum_dicts(values_of(usages_per_user))

\* _get_usage_report: per account the native usage of each user
native_report(lines) ==
  LET of(a, u) == SelectSeq(lines, LAMBDA l : l.account = a /\ l.user = u)
      tres(ls) == [i \in 1..Len(ls) |-> ls[i].tres_usage]
  IN [a \in {lines[i].account : i \in 1..Len(lines)} |->
        [u \in {lines[i].user : i \in {j \in 1..Len(lines) : lines[j].account = a}} |->
           sum_dicts(tres(of(a, u)))]]

\* SlurmBackend._get_usage_report
get_usage_report(bc, lines) ==
  LET report == native_report(lines)
  IN [a \in DOMAIN report |->
        [u \in DOMAIN report[a] \cup {TOTAL_ACCOUNT_USAGE} |->
           convert_slurm_units_to_waldur_ones(bc,
             IF u = TOTAL_ACCOUNT_USAGE THEN account_total(report[a]) ELSE report[a][u],
             FALSE)]]

\* the cluster accounts a finished job: one more sacct line
sacct_line ==
  /\ Len(usage_lines) < MaxLines
  /\ \E account \in accounts, user \in UsageUsers, v \in 1..MaxUsage :
       usage_lines' = Append(usage_lines,
         [account |-> account, user |-> user,
          tres_usage |-> [c \in Components |-> IF c = "cpu" THEN v ELSE 1]])
  /\ UNCHANGED <<configVars, cpVars, clusterVars, workerVars, historyVars, memberVars,
                 b_call, b_calls, reportVars, eventVars, driverVars>>

\* SlurmBackend._get_usage_report(accounts)
b_get_usage_report ==
  /\ b_call' = [op |-> "get_usage_report", lines |-> usage_lines,
                returned |-> get_usage_report(backend_components, usage_lines)]
  /\ UNCHANGED <<configVars, cpVars, clusterVars, workerVars, historyVars, memberVars,
                 usage_lines, b_calls, reportVars, eventVars, driverVars>>

NextUsage ==
  \/ sacct_line
  \/ b_get_usage_report

SpecUsage == InitUsage /\ [][NextUsage]_vars

RECURSIVE SumOver(_, _, _)
\* the sum over the users in S of their entry for component c
SumOver(S, f, c) ==
  IF S = {} THEN quotient(0, 1)
  ELSE LET u == CHOOSE x \in S : TRUE
       IN plus(f[u][c], SumOver(S \ {u}, f, c))

\* C9: in every report the total entry of an account equals, component by
\* component, the sum of the account's per-user entries of the same report,
\* both after unit conversion.
TotalIsSumOfConvertedRows ==
  b_call.op = "get_usage_report" =>
    \A a \in DOMAIN b_call.returned : \A c \in Components :
      b_call.returned[a][TOTAL_ACCOUNT_USAGE][c]
        = SumOver(DOMAIN b_call.returned[a] \ {TOTAL_ACCOUNT_USAGE}, b_call.returned[a], c)

\* C9 witness: an account with two users whose converted usage of cpu is no
\* whole number, for any of the two or for the total
TotalWitness ==
  /\ b_call.op = "get_usage_report"
  /\ \E a \in DOMAIN b_call.returned :
       /\ Cardinality(DOMAIN b_call.returned[a]) = 3
       /\ \A u \in DOMAIN b_call.returned[a] : b_call.returned[a][u]["cpu"].den # 1

\* ---------------------------------- the backend driven directly: limits
\* SlurmBackend.set_resource_limits and _get_allocation_limits on the account a1

MaxLimit == 3

InitLimits ==
  /\ BackendConfig
  /\ \E fc, fm \in 1..MaxFactor :
       backend_components =
         [ComponentsWith(fc) EXCEPT !["mem"].unit_factor = fm]
  /\ homedir_enabled = TRUE
  /\ accounts = {"a1"}
  /\ account_limits \in [accounts -> {EmptyDict, [c \in {"cpu"} |-> 6]}]
  /\ associations \in {{}, {<<"alice", "a1">>}}
  /\ BackendIdle

RECURSIVE format_limits(_)
\* SlurmClient.set_resource_limits: the key=value items of the GrpTRESMins
\* argument, one <<key, value>> per item
format_limits(limits_dict) ==
  IF DOMAIN limits_dict = {} THEN <<>>
  ELSE LET k == CHOOSE x \in DOMAIN limits_dict : TRUE
       IN <<<<k, limits_dict[k]>>>>
            \o format_limits([x \in DOMAIN limits_dict \ {k} |-> limits_dict[x]])

\* the key=value items read back into a dict: by the cluster from the
\* command, by SlurmAssociationLine.tres_limits from the output line
parse_tres(items) ==
  [k \in {items[i][1] : i \in 1..Len(items)} |->
     LET i == CHOOSE j \in 1..Len(items) :
                /\ items[j][1] = k
                /\ \A m \in 1..Len(items) : items[m][1] = k => m <= j
     IN items[i][2]]

\* SlurmClient.get_resource_limits: the association lines of the account, the
\* account's own first and one per user, which carries no limits
get_resource_limits(stored, assoc, account) ==
  <<[account |-> account, tres_limits |-> parse_tres(format_limits(stored[account]))]>>
  \o [i \in 1..Cardinality(account_users(assoc, account)) |->
        [account |-> account, tres_limits |-> EmptyDict]]

\* SlurmBackend._get_allocation_limits
get_allocation_limits(bc, lines) ==
  LET correct_lines == SelectSeq(lines, LAMBDA l : l.tres_limits # EmptyDict)
  IN IF Len(correct_lines) = 0 THEN EmptyDict
     ELSE convert_slurm_units_to_waldur_ones(bc, correct_lines[1].tres_limits, TRUE)

\* SlurmBackend.set_resource_limits(account, limits)
b_set_resource_limits ==
  /\ \E account \in accounts, keys \in SUBSET Components :
       \E limits \in [keys -> 0..MaxLimit] :
         LET command == format_limits(converted_limits(backend_components, limits))
         IN /\ account_limits' = [account_limits EXCEPT ![account] =
                                    modify_account(@, parse_tres(command))]
            /\ b_call' = [op |-> "set_resource_limits", account |-> account,
                          args |-> limits]
  /\ UNCHANGED <<configVars, cpVars, accounts, associations, workerVars, historyVars,
                 memberVars, usage_lines, b_calls, reportVars, eventVars, driverVars>>

\* SlurmBackend._get_allocation_limits(account); limits_set is what the
\* call just before it set on the same account, if it was a set
b_get_allocation_limits ==
  /\ \E account \in accounts :
       b_call' = [op |-> "get_allocation_limits", account |-> account,
                  limits_set |-> IF b_call.op = "set_resource_limits"
                                      /\ b_call.account = account
                                   THEN b_call.args ELSE EmptyDict,
                  returned |-> get_allocation_limits(backend_components,
                     get_resource_limits(account_limits, associations, account))]
  /\ UNCHANGED <<configVars, cpVars, clusterVars, workerVars, historyVars, memberVars,
                 usage_lines, b_calls, reportVars, eventVars, driverVars>>

NextLimits ==
  \/ b_set_resource_limits
  \/ b_get_allocation_limits

SpecLimits == InitLimits /\ [][NextLimits]_vars

\* C10: a limit x set through set_resource_limits, stored as x times the
\* component's unit factor, reads back through _get_allocation_limits as x,
\* for every component set.
LimitsRoundTrip ==
  b_call.op = "get_allocation_limits" =>
    \A c \in DOMAIN b_call.limits_set :
      /\ c \in DOMAIN b_call.returned
      /\ b_call.returned[c] = b_call.limits_set[c]
      /\ account_limits[b_call.account][c]
           = b_call.limits_set[c] * backend_components[c].unit_factor

LimitsRoundTripWitness ==
  /\ b_call.op = "get_allocation_limits"
  /\ "mem" \in DOMAIN b_call.limits_set
  /\ b_call.limits_set["mem"] > 1
  /\ backend_components["mem"].unit_factor > 1
  /\ b_call.returned["mem"] = b_call.limits_set["mem"]
  /\ account_limits[b_call.account]["mem"] > b_call.limits_set["mem"]

\* ------------------------------------------------------ membership claims

\* T: the usernames of the non-restricted offering users on the resource's team
TeamUsernames(r) ==
  {x.username : x \in {y \in offering_users : ~y.is_restricted /\ y.user_uuid \in team[r]}}

\* the spec's scenario: local grants {alice, bob}, team {alice, carol},
\* offering users {alice, carol, dave}
Scenario4(r) ==
  /\ sync[r].processed
  /\ sync[r].local_usernames = {"alice", "bob"}
  /\ team[r] = {"ua", "uc"}
  /\ {x.username : x \in unrestricted_offering_users(offering_users)} = {"alice", "carol", "dave"}
  /\ ~m_resources[r].restrict_member_access

\* C5: for a non-restricted resource the pass requests additions for exactly
\* T \ L, so no offering user off the team is added; the request is skipped
\* only when a control-plane read failed before it.
AdditionsAreTeamMinusLocal ==
  \A r \in MemberResources :
    (sync[r].processed /\ ~m_resources[r].restrict_member_access) =>
      /\ sync[r].add_called => sync[r].add = TeamUsernames(r) \ sync[r].local_usernames
      /\ sync[r].added \subseteq TeamUsernames(r)
      /\ ~sync[r].add_called => sync[r].add = {} /\ sync[r].exc = "waldur"

AdditionsWitness ==
  \E r \in MemberResources :
    /\ sync[r].processed /\ ~m_resources[r].restrict_member_access
    /\ sync[r].add_called /\ sync[r].add # {}
    /\ sync[r].local_usernames # {}
    /\ \E y \in unrestricted_offering_users(offering_users) :
         y.user_uuid \notin team[r] /\ y.username \notin sync[r].local_usernames

\* C6 as stated: for a non-restricted resource the pass removes every local
\* username that no team member owns, and only those; in the scenario the
\* removals are {bob} and the additions {carol}.
RemovalsAreUntiedLocals ==
  \A r \in MemberResources :
    /\ (sync[r].remove_called /\ ~m_resources[r].restrict_member_access) =>
         sync[r].remove = {n \in sync[r].local_usernames :
            ~\E y \in unrestricted_offering_users(offering_users) :
                y.username = n /\ y.user_uuid \in team[r]}
    /\ (Scenario4(r) /\ sync[r].remove_called) =>
         sync[r].remove = {"bob"} /\ sync[r].add = {"carol"}

\* C6, amended: for a non-restricted resource the pass requests removal of
\* exactly the local usernames carried by an offering user whose user is off
\* the team; a local username no offering user carries stays.  The removal
\* is not requested when an earlier step of the resource raised.  In the
\* scenario the additions are {carol} and nothing is removed.
RemovalsAreStaleOfferingUsers ==
  \A r \in MemberResources :
    /\ (sync[r].processed /\ ~m_resources[r].restrict_member_access) =>
         /\ sync[r].remove_called =>
              sync[r].remove = {n \in sync[r].local_usernames :
                 \E y \in unrestricted_offering_users(offering_users) :
                     y.username = n /\ y.user_uuid \notin team[r]}
         /\ ~sync[r].remove_called =>
              sync[r].remove = {} /\ sync[r].exc \in {"waldur", "other"}
    /\ (Scenario4(r) /\ sync[r].add_called) =>
         sync[r].add = {"carol"} /\ sync[r].remove = {}

RemovalsWitness ==
  \E r \in MemberResources :
    /\ Scenario4(r) /\ sync[r].remove_called /\ sync[r].add_called
    /\ <<"bob", AccountOf(r)>> \in associations
    /\ <<"carol", AccountOf(r)>> \in associations

\* C7: for a restricted resource the pass requests no additions and removes
\* exactly L \cap T; the removal is skipped only when a control-plane read
\* failed before it.
RestrictedRemovesTeamGrants ==
  \A r \in MemberResources :
    (sync[r].processed /\ m_resources[r].restrict_member_access) =>
      /\ ~sync[r].add_called /\ sync[r].add = {} /\ sync[r].added = {}
      /\ sync[r].remove_called =>
           sync[r].remove = sync[r].local_usernames \cap TeamUsernames(r)
      /\ ~sync[r].remove_called => sync[r].remove = {} /\ sync[r].exc = "waldur"

RestrictedWitness ==
  \E r \in MemberResources :
    /\ sync[r].processed /\ m_resources[r].restrict_member_access
    /\ sync[r].remove_called /\ sync[r].remove # {}
    /\ sync[r].local_usernames \ TeamUsernames(r) # {}
    /\ TeamUsernames(r) \ sync[r].local_usernames # {}
    /\ \A n \in sync[r].local_usernames \ TeamUsernames(r) : <<n, AccountOf(r)>> \in associations

\* ---------------------------------------------------- the report worker
\* OfferingReportProcessor of processors.py (impl "processors") and of
\* agent_report.py (impl "agent_report"), one sequential worker

RESOURCE_ERRED_STATE == "Erred"
ReportResources == {"r1", "r2"}
NoRep ==
  [listed |-> FALSE, state |-> "", missing_marks |-> 0, error_marks |-> 0, processed |-> FALSE,
   set_ok |-> FALSE, total_calls |-> 0, total |-> EmptyDict, user_rows |-> {},
   usage |-> EmptyDict, exc |-> "none"]

usage_line(account, user, cpu) ==
  [account |-> account, user |-> user,
   tres_usage |-> [c \in Components |-> IF c = "cpu" THEN cpu ELSE 1]]

\* the months of sacct lines the report runs start from
ReportLines ==
  { <<>>,
    <<usage_line("a1", "alice", 2)>>,
    <<usage_line("a1", "alice", 2), usage_line("a1", "bob", 1)>>,
    <<usage_line("a1", "alice", 2), usage_line("a2", "bob", 1)>> }

InitReportWith(i) ==
  /\ impl = i
  /\ offering_type \in {MARKETPLACE_SLURM_OFFERING_TYPE, "Marketplace.Basic"}
  /\ backend_components = DefaultComponents
  /\ homedir_enabled = TRUE
  /\ OrderIdle
  /\ team = [r \in ReportResources |-> {}]
  /\ offering_users = {offering_user("ua", "alice", FALSE)}
  /\ accounts \in SUBSET {AccountOf(r) : r \in ReportResources}
  /\ account_limits = [b \in accounts |-> EmptyDict]
  /\ associations = {}
  /\ backend_settings = NoSettings
  /\ account_qos = [b \in accounts |-> "normal"]
  /\ \E st \in [ReportResources -> {"OK", RESOURCE_ERRED_STATE}],
        pp \in [ReportResources -> BOOLEAN],
        cu \in [ReportResources -> {{}, {"cpu"}}] :
       m_resources = [r \in ReportResources |->
         [state |-> st[r], backend_id |-> AccountOf(r), plan_period |-> pp[r],
          component_usages |-> cu[r], alloc_state |-> "OK"]]
  /\ m_pc = "idle"
  /\ resource_report = <<>>
  /\ m_frame = NoFrame
  /\ sync = [r \in {} |-> NoSync]
  /\ usage_lines \in ReportLines
  /\ b_call = NoCall
  /\ b_calls = 0
  /\ waldur_offering \in {[components |-> Components], [components |-> {"cpu"}]}
  /\ r_pc = "idle"
  /\ r_resource_report = <<>>
  /\ rep = [r \in ReportResources |-> NoRep]
  /\ EventIdle
  /\ DriverIdle

\* BaseBackend.pull_resources: the usage of a pulled account, a zero total
\* when sacct has no line for it
pulled_usage(bc, lines, account) ==
  LET report == get_usage_report(bc, lines)
  IN IF account \in DOMAIN report THEN report[account]
     ELSE [u \in {TOTAL_ACCOUNT_USAGE} |-> [c \in DOMAIN bc |-> quotient(0, 1)]]

\* the states a report pass asks the control plane for
report_states ==
  IF impl = "processors" THEN {"OK", RESOURCE_ERRED_STATE} ELSE {"OK"}

\* whether the pass looks for resources missing on the cluster
detects_missing ==
  IF impl = "processors" THEN offering_type = MARKETPLACE_SLURM_OFFERING_TYPE ELSE TRUE

\* every listed resource absent from the pull, erred ones included
missing_resources_any_state(waldur_resources, mr, keys) ==
  {waldur_resources[i] : i \in 1..Len(waldur_resources)}
    \ {r \in DOMAIN mr : mr[r].backend_id \in keys}

\* process_offering: the listed resources absent from the pull and not erred
missing_resources(waldur_resources, mr, keys) ==
  {r \in {waldur_resources[i] : i \in 1..Len(waldur_resources)} :
     /\ mr[r].backend_id \notin keys
     /\ impl = "processors" => mr[r].state # RESOURCE_ERRED_STATE}

\* mark_waldur_resources_as_erred (processors.py), or one iteration of
\* _mark_missing_waldur_resources_as_erred (agent_report.py), whose except
\* clause logs a call the control plane refused and leaves the allocation
\* in its state
marked_erred(resource, refused) ==
  IF impl = "processors" THEN [resource EXCEPT !.state = RESOURCE_ERRED_STATE]
  ELSE IF refused THEN resource
  ELSE [resource EXCEPT !.alloc_state = "ERRED"]

\* OfferingReportProcessor.process_offering up to the loop of
\* _process_resources: list, pull, mark the missing resources, get the
\* offering.  listed and offering_ok tell whether the two control-plane
\* reads succeed, refused the missing resources whose marking call raises
\* in agent_report.py.
r_process_offering ==
  /\ r_pc = "idle"
  /\ passes < MaxPasses
  /\ passes' = passes + 1
  /\ \E listed, offering_ok \in BOOLEAN, refused \in SUBSET (DOMAIN m_resources) :
       LET waldur_resources ==
             SelectSeq(listed_ids(m_resources),
                       LAMBDA r : m_resources[r].state \in report_states)
           present == SelectSeq(waldur_resources,
                                LAMBDA r : m_resources[r].backend_id \in accounts)
           report == [i \in 1..Len(present) |->
                        [marketplace_uuid |-> present[i],
                         backend_id |-> m_resources[present[i]].backend_id,
                         state |-> m_resources[present[i]].state,
                         usage |-> pulled_usage(backend_components, usage_lines,
                                                m_resources[present[i]].backend_id)]]
           keys == {report[i].backend_id : i \in 1..Len(report)}
           missing == IF detects_missing
                        THEN missing_resources(waldur_resources, m_resources, keys)
                        ELSE {}
       IN /\ listed \/ offering_ok
          /\ refused \subseteq (IF listed /\ impl # "processors" THEN missing ELSE {})
          /\ m_resources' = [r \in DOMAIN m_resources |->
                IF listed /\ r \in missing
                  THEN marked_erred(m_resources[r], r \in refused)
                  ELSE m_resources[r]]
          /\ rep' = [r \in DOMAIN rep |->
                [NoRep EXCEPT
                   !.listed = listed /\ r \in {waldur_resources[i] : i \in 1..Len(waldur_resources)},
                   !.state = m_resources[r].state,
                   !.missing_marks = IF listed /\ r \in missing THEN 1 ELSE 0]]
          /\ r_resource_report' = IF listed /\ offering_ok THEN report ELSE <<>>
          /\ r_pc' = IF listed /\ offering_ok /\ report # <<>> THEN "resources" ELSE "idle"
  /\ UNCHANGED <<configVars, orders, resources, team, offering_users, clusterVars,
                 pc, queue, order, attempts, historyVars, backend_settings, m_frame, account_qos,
                 m_pc, resource_report, sync, backendVars, waldur_offering, eventVars,
                 driverVars>>

\* the per-user rows with the total kept among them
remaining_usages_with_total(usages) == usages

\* _process_resources: the per-user usages left once TOTAL_ACCOUNT_USAGE is
\* popped from the usage map
remaining_usages(usages) ==
  [u \in DOMAIN usages \ {TOTAL_ACCOUNT_USAGE} |-> usages[u]]

\* _submit_total_usage_for_resource: the amounts of the declared components
usage_objects(total_usage, component_types) ==
  [c \in DOMAIN total_usage \cap component_types |-> total_usage[c]]

\* _submit_user_usage_for_resource: user_usage[component_type] for each
\* listed component usage; the users whose usage has no such key
users_lacking(per_user, types) ==
  {u \in DOMAIN per_user : ~(types \subseteq DOMAIN per_user[u])}

\* _submit_total_usage_for_resource: len(plan_periods) > 0, the submission
\* goes on past the warning
plan_period_found(resource) == resource.plan_period

\* handling every exception of a resource as the legacy class does
handles_by_marking_never == FALSE

\* _process_resources: whether the except clause marks the resource erred;
\* agent_report.py only logs
handles_by_marking == impl = "processors"

\* One iteration of the loop of _process_resources, from call first on.  The
\* calls, in order:
\*   1 set resource OK (processors.py, when the resource is Erred)
\*   2 get plan periods       3 create component usages (with a plan period)
\*   4 list component usages  5 the per-user submissions
\* (4 and 5: processors.py, when per-user usages remain).  fp is the call that
\* raises (0: none).  Call 5 is, for each user, list_remote_offering_users and
\* one create_component_user_usage per listed component usage: with fp = 5
\* the users in done were submitted before the call that raises, and part
\* are the rows of the user it raises for that were submitted before it.
\* A user whose usage lacks the type of a listed component usage raises
\* KeyError in call 5: the users in done were submitted before it, and part
\* are the rows of that user submitted before the missing type came up.
\* The except clause marks the resource erred; a resource that raised nothing
\* keeps the state the control plane has for it.
process_resources_from(first) ==
  /\ LET resource == Head(r_resource_report)
         r == resource.marketplace_uuid
         usages == resource.usage
         total_usage == usages[TOTAL_ACCOUNT_USAGE]
         per_user == IF impl = "processors" THEN remaining_usages(usages) ELSE EmptyDict
         objects == usage_objects(total_usage, waldur_offering.components)
     IN \E fp \in 0..5, done \in SUBSET (DOMAIN per_user),
           part \in SUBSET ((DOMAIN per_user) \X Components) :
          LET app(k) == CASE k = 1 -> impl = "processors"
                                      /\ resource.state = RESOURCE_ERRED_STATE
                          [] k = 2 -> TRUE
                          [] k = 3 -> plan_period_found(m_resources[r])
                          [] OTHER -> DOMAIN per_user # {}
              tried(k) == app(k) /\ (fp = 0 \/ fp >= k)
              did(k) == tried(k) /\ fp # k
              types == m_resources[r].component_usages
                         \cup (IF did(3) THEN DOMAIN objects ELSE {})
              bad == users_lacking(per_user, types)
              keyerror == fp = 0 /\ app(5) /\ bad # {}
              submitted == IF keyerror THEN done
                           ELSE IF did(5) THEN DOMAIN per_user
                           ELSE IF tried(5) THEN done ELSE {}
              raised == fp # 0 \/ keyerror
              marked == raised /\ handles_by_marking
          IN /\ fp # 0 => tried(fp) /\ fp >= first
             /\ fp = 5 => done # DOMAIN per_user
             /\ (fp # 5 /\ ~keyerror) => done = {}
             /\ done \cap bad = {}
             /\ IF keyerror
                  THEN \E u \in bad :
                         part \subseteq {u} \X (types \cap DOMAIN per_user[u])
                ELSE IF fp = 5
                  THEN \E u \in DOMAIN per_user \ done :
                         LET rows == {u} \X (types \cap DOMAIN per_user[u])
                         IN part \subseteq rows /\ (part = {} \/ part # rows)
                  ELSE part = {}
             /\ m_resources' = [m_resources EXCEPT ![r] =
                   [@ EXCEPT !.state = IF marked THEN RESOURCE_ERRED_STATE
                                       ELSE IF did(1) /\ first = 1 THEN "OK" ELSE @,
                             !.component_usages = types]]
             /\ rep' = [rep EXCEPT ![r] =
                   [@ EXCEPT !.processed = TRUE,
                             !.set_ok = did(1),
                             !.total_calls = IF did(3) THEN 1 ELSE 0,
                             !.total = IF did(3) THEN objects ELSE EmptyDict,
                             !.user_rows = {<<u, c, per_user[u][c]>> :
                                              u \in submitted, c \in types}
                                           \cup {<<p[1], p[2], per_user[p[1]][p[2]]>> :
                                                   p \in part},
                             !.usage = usages,
                             !.error_marks = IF marked THEN 1 ELSE 0,
                             !.exc = IF fp # 0 THEN "waldur"
                                     ELSE IF keyerror THEN "other" ELSE "none"]]
  /\ r_resource_report' = Tail(r_resource_report)
  /\ r_pc' = IF Tail(r_resource_report) = <<>> THEN "idle" ELSE "resources"
  /\ UNCHANGED <<configVars, orders, resources, team, offering_users, clusterVars,
                 workerVars, historyVars, backend_settings, m_frame, account_qos,
                 m_pc, resource_report, sync, backendVars, waldur_offering, eventVars,
                 driverVars>>

\* One iteration of the loop of _process_resources.  Nothing else runs beside
\* the report worker here, so the calls of one resource are one step.
r_process_resource ==
  /\ r_pc = "resources"
  /\ process_resources_from(1)

NextReport ==
  \/ r_process_offering
  \/ r_process_resource

InitReport == InitReportWith("processors")
SpecReport == InitReport /\ [][NextReport]_vars

InitReportLegacy == InitReportWith("agent_report")
SpecReportLegacy == InitReportLegacy /\ [][NextReport]_vars

\* --------------------------------------------------------- report claims

\* C11 as stated: in a report pass every listed resource whose backend id is
\* absent from the pull and whose state is not Erred is marked erred exactly
\* once by the missing-resource detection; a resource present in the pull,
\* or already Erred, is not marked by it.
MissingResourcesMarkedOnce ==
  \A r \in DOMAIN rep :
    rep[r].listed =>
      rep[r].missing_marks =
        IF m_resources[r].backend_id \notin accounts /\ rep[r].state # RESOURCE_ERRED_STATE
          THEN 1 ELSE 0

\* C12: in a report pass of processors.py, for a resource present in the
\* pull that has a plan period and whose processing raised nothing, the
\* total entry goes once to the billing-period endpoint, cut down to the
\* declared components, and every remaining per-user entry goes to the
\* per-user endpoint for each usage record of the resource; the total entry
\* is never submitted as a per-user row, whatever happened.
TotalAndUserRowsSubmitted ==
  \A r \in DOMAIN rep :
    rep[r].processed =>
      /\ rep[r].total_calls <= 1
      /\ \A row \in rep[r].user_rows :
           /\ row[1] # TOTAL_ACCOUNT_USAGE
           /\ row[1] \in DOMAIN rep[r].usage
           /\ row[3] = rep[r].usage[row[1]][row[2]]
      /\ (m_resources[r].plan_period /\ rep[r].exc = "none") =>
           /\ rep[r].total_calls = 1
           /\ rep[r].total =
                [c \in Components \cap waldur_offering.components |->
                   rep[r].usage[TOTAL_ACCOUNT_USAGE][c]]
           /\ \A u \in DOMAIN rep[r].usage \ {TOTAL_ACCOUNT_USAGE} :
                /\ \E row \in rep[r].user_rows : row[1] = u
                /\ \A c \in m_resources[r].component_usages :
                     <<u, c, rep[r].usage[u][c]>> \in rep[r].user_rows

TotalAndUserRowsWitness ==
  \E r \in DOMAIN rep :
    /\ rep[r].processed /\ m_resources[r].plan_period /\ rep[r].exc = "none"
    /\ rep[r].total_calls = 1
    /\ Cardinality(DOMAIN rep[r].usage) = 3
    /\ Cardinality(rep[r].user_rows) >= 2
    /\ waldur_offering.components # Components

\* ------------------------------------------------ order claims, continued
\* the order whose processing a step of the order worker ends, and the orders
\* of the batch that follow it
CurOrder == IF pc = "loop" THEN Head(queue).uuid ELSE order.uuid
RestOfBatch == IF pc = "loop" THEN Tail(queue) ELSE queue

\* a step that ends process_order for CurOrder
OrderEnds ==
  /\ pc # "idle"
  /\ order' = NoOrder
  /\ <<pc, queue>>' # <<pc, queue>>

\* the exceptions raised while approving, refreshing or dispatching
RaisedOutcomes == {"waldur", "backend", "other"}

\* ---------------------------------------------------------------- C13
\* C13 as stated: when an exception is raised while approving, refreshing or
\* dispatching an order, the order is marked erred and the remaining orders of
\* the batch stay queued for the same pass.
FailedOrderErredAndBatchContinues ==
  [][(OrderEnds /\ outcome'[CurOrder] \in RaisedOutcomes) =>
       /\ orders'[CurOrder].state = "erred"
       /\ queue' = RestOfBatch]_vars

\* ---------------------------------------------------------------- C14
\* the order worker of either generation
SpecOrderBoth == InitOrderBoth /\ [][NextOrder]_vars

\* processing that failed because a control-plane call raised: in the
\* approve/refresh/dispatch steps, or in set_state_done, which
\* agent_order_process.py calls also after a handler that gave up (out is
\* then what the handler did, and tr is without "done")
ControlPlaneFailures(out, tr) ==
  \/ out \in {"waldur", "done_failed"}
  \/ out # "true" /\ order_is_done(out) /\ "done" \notin tr

\* C14 as stated: an order whose processing failed on a control-plane call is
\* marked neither erred nor done, stays in a state the next pass fetches, and
\* the remaining orders of the batch stay queued.
ControlPlaneFailureOnlyLogged ==
  [][(OrderEnds /\ ControlPlaneFailures(outcome'[CurOrder], transitions'[CurOrder])) =>
       /\ orders'[CurOrder].state \in open_states
       /\ transitions'[CurOrder] \cap {"done", "erred", "erred_failed"} = {}
       /\ queue' = RestOfBatch]_vars

\* C14 amended: that holds for the loop of agent_order_process.py; process_order
\* of processors.py calls set_state_erred for the order instead.
ControlPlaneFailureLoggedByLegacyLoop ==
  [][(OrderEnds /\ ControlPlaneFailures(outcome'[CurOrder], transitions'[CurOrder])) =>
       IF impl = "agent_order_process"
         THEN /\ orders'[CurOrder].state \in open_states
              /\ transitions'[CurOrder] \cap {"done", "erred", "erred_failed"} = {}
              /\ queue' = RestOfBatch
         ELSE transitions'[CurOrder] \cap {"erred", "erred_failed"} # {}]_vars

\* C14 witness: the legacy loop failed the second order on a control-plane
\* call in the first pass, and the second pass fetched that order again
ControlPlaneFailureWitness ==
  /\ impl = "agent_order_process"
  /\ passes = 2
  /\ pc = "loop"
  /\ Head(queue).uuid = "o2"
  /\ outcome["o2"] = "waldur"
  /\ outcome["o1"] # "none"

\* ------------------------------- membership and report passes, two resources
\* The membership worker and the report worker of processors.py over one
\* offering with two resources.  The two workers are separate processes: each
\* keeps its own resource_report, and their calls to the control plane
\* interleave.  The report worker writes the state of a resource twice, when
\* it sets an Erred resource OK and when its except clause marks the resource
\* erred, and the membership worker reads the states when it lists the
\* resources: the first write is a step of its own.
TeamsOfPasses == {{}, {"ua"}, {"ua", "ub"}}

InitPasses ==
  /\ impl = "processors"
  /\ offering_type = MARKETPLACE_SLURM_OFFERING_TYPE
  /\ backend_components = DefaultComponents
  /\ homedir_enabled \in BOOLEAN
  /\ OrderIdle
  /\ \E t \in TeamsOfPasses : team = [r \in ReportResources |-> t]
  /\ offering_users = {offering_user("ua", "alice", FALSE), offering_user("ub", "bob", FALSE)}
  /\ accounts = {AccountOf(r) : r \in ReportResources}
  /\ account_limits = [b \in accounts |-> EmptyDict]
  /\ associations \in {{}, {<<"alice", "a1">>}}
  /\ backend_settings = QosSettings
  /\ account_qos = [b \in accounts |-> "normal"]
  /\ \E st \in [ReportResources -> {"OK", RESOURCE_ERRED_STATE}], paused \in BOOLEAN :
       m_resources = [r \in ReportResources |->
         [state |-> st[r], backend_id |-> AccountOf(r),
          restrict_member_access |-> FALSE, paused |-> paused /\ r = "r1",
          downscaled |-> FALSE, backend_metadata |-> "none",
          plan_period |-> TRUE, component_usages |-> {}, alloc_state |-> "OK"]]
  /\ m_pc = "idle"
  /\ resource_report = <<>>
  /\ m_frame = NoFrame
  /\ sync = [r \in ReportResources |-> NoSync]
  /\ usage_lines \in {l \in ReportLines : Len(l) # 1}
  /\ b_call = NoCall
  /\ b_calls = 0
  /\ waldur_offering = [components |-> Components]
  /\ r_pc = "idle"
  /\ r_resource_report = <<>>
  /\ rep = [r \in ReportResources |-> NoRep]
  /\ EventIdle
  /\ DriverIdle

\* _process_resources, the call that sets an Erred resource OK: when it
\* succeeds the iteration goes on with the submissions, when it raises the
\* except clause marks the resource and the loop moves on
r_set_resource_ok ==
  /\ r_pc = "resources"
  /\ impl = "processors"
  /\ Head(r_resource_report).state = RESOURCE_ERRED_STATE
  /\ LET r == Head(r_resource_report).marketplace_uuid
     IN \E ok \in BOOLEAN :
          LET marked == ~ok /\ handles_by_marking
          IN /\ m_resources' = [m_resources EXCEPT ![r].state =
                   IF ok THEN "OK" ELSE IF marked THEN RESOURCE_ERRED_STATE ELSE @]
             /\ rep' = [rep EXCEPT ![r] =
                   IF ok THEN [@ EXCEPT !.set_ok = TRUE]
                   ELSE [@ EXCEPT !.processed = TRUE,
                                  !.usage = Head(r_resource_report).usage,
                                  !.error_marks = IF marked THEN 1 ELSE 0,
                                  !.exc = "waldur"]]
             /\ r_resource_report' = IF ok THEN r_resource_report
                                     ELSE Tail(r_resource_report)
             /\ r_pc' = IF ok THEN "usage"
                        ELSE IF Tail(r_resource_report) = <<>> THEN "idle" ELSE "resources"
  /\ UNCHANGED <<configVars, orders, resources, team, offering_users, clusterVars,
                 workerVars, historyVars, backend_settings, m_frame, account_qos,
                 m_pc, resource_report, sync, backendVars, waldur_offering, eventVars,
                 driverVars>>

\* _process_resources, the rest of the iteration: of a resource listed as OK,
\* or of one that was just set OK
r_submit_usage ==
  /\ \/ r_pc = "usage"
     \/ r_pc = "resources" /\ Head(r_resource_report).state # RESOURCE_ERRED_STATE
  /\ process_resources_from(2)

NextPasses ==
  \/ m_process_offering
  \/ m_process_resource
  \/ r_process_offering
  \/ r_set_resource_ok
  \/ r_submit_usage

SpecPasses == InitPasses /\ [][NextPasses]_vars

\* a step that ends _process_resource, or the loop body of _process_resources,
\* for a resource
MemberResourceStep == m_pc = "resources" /\ resource_report' # resource_report
ReportResourceStep ==
  r_pc \in {"resources", "usage"} /\ r_resource_report' # r_resource_report

\* ---------------------------------------------------------------- C15
\* C15: when the processing of one resource raises in a membership pass or a
\* report pass, that resource is marked Erred, no other resource changes
\* state, and the pass goes on with the resources that follow it.
FailedResourceAloneErred ==
  [][/\ (MemberResourceStep
          /\ sync'[Head(resource_report).marketplace_uuid].exc # "none") =>
         LET cur == Head(resource_report).marketplace_uuid
         IN /\ m_resources'[cur].state = RESOURCE_ERRED_STATE
            /\ \A r \in DOMAIN m_resources \ {cur} : m_resources'[r] = m_resources[r]
            /\ resource_report' = Tail(resource_report)
            /\ resource_report' # <<>> => m_pc' = "resources"
     /\ (ReportResourceStep
          /\ rep'[Head(r_resource_report).marketplace_uuid].exc # "none") =>
         LET cur == Head(r_resource_report).marketplace_uuid
         IN /\ m_resources'[cur].state = RESOURCE_ERRED_STATE
            /\ \A r \in DOMAIN m_resources \ {cur} : m_resources'[r] = m_resources[r]
            /\ r_resource_report' = Tail(r_resource_report)
            /\ r_resource_report' # <<>> => r_pc' = "resources"]_vars

\* C15 witness: a membership pass failed on r1, marked it and went on to
\* process r2; the report pass that followed failed on r1, marked it and
\* reported r2
FailedResourceWitness ==
  /\ passes = 2
  /\ sync["r1"].exc # "none"
  /\ sync["r2"].processed /\ sync["r2"].exc = "none"
  /\ rep["r1"].exc # "none" /\ rep["r1"].error_marks = 1
  /\ rep["r2"].processed /\ rep["r2"].exc = "none"
  /\ m_resources["r1"].state = RESOURCE_ERRED_STATE
  /\ m_resources["r2"].state = "OK"

\* ---------------------------------------------------------------- C16
\* C16: a Create order whose processing ended on the polling timeout or on an
\* unexpected order state is marked neither done nor erred and is still in a
\* state the next pass fetches.
AbortedCreateLeftForRetry ==
  \A o \in Orders :
    (orders[o].type = "Create" /\ outcome[o] \in {"timeout", "unexpected"}) =>
      /\ transitions[o] \cap {"done", "erred"} = {}
      /\ orders[o].state \in open_states

\* --------------------------- the role-change handler beside the membership pass
\* OfferingMembershipProcessor.process_user_role_changed runs in the thread of
\* the event consumer while the periodic pass runs in the main thread.  Each
\* blocking call, to the control plane or to the cluster, is one step; the
\* steps of the two tasks interleave.

MaxEvents == 2

\* BaseBackend.remove_user: the association is deleted when it is there
remove_user(assoc, account, username) ==
  [assoc |-> assoc \ {<<username, account>>},
   deleted |-> <<username, account>> \in assoc]

\* ------------------------------------ the membership pass, call by call
\* process_offering and _process_resource of the membership worker with every
\* blocking call a step of its own, for the specifications in which the
\* role-change handler runs beside the pass: the handler's backend calls can
\* fall between any two calls of the pass.  add_users_to_resource and
\* remove_users_from_account issue one command per username, and the backend
\* pulls one account at a time.  m_frame holds what the pass has read so far.

\* _process_resource, the except clause: the resource is marked Erred with
\* what rec tells of its processing, and the pass goes on with the next one
p_raised(r, rec, exc) ==
  /\ m_resources' = [m_resources EXCEPT ![r].state = "Erred"]
  /\ sync' = [sync EXCEPT ![r] = [rec EXCEPT !.processed = TRUE, !.exc = exc]]
  /\ resource_report' = Tail(resource_report)
  /\ m_pc' = IF Tail(resource_report) = <<>> THEN "idle" ELSE "resources"
  /\ m_frame' = NoFrame

\* _get_waldur_resources: the control plane lists the OK resources; listed
\* fails when the call raises, and the exception leaves the pass
p_get_waldur_resources ==
  /\ m_pc = "idle"
  /\ passes < MaxPasses
  /\ passes' = passes + 1
  /\ \E listed \in BOOLEAN :
       LET descriptors == get_waldur_resources(listed_ids(m_resources), m_resources)
       IN /\ m_frame' = [NoFrame EXCEPT !.descriptors = IF listed THEN descriptors ELSE <<>>]
          /\ m_pc' = IF listed /\ descriptors # <<>> THEN "pull" ELSE "idle"
  /\ resource_report' = <<>>
  /\ UNCHANGED <<configVars, cpVars, clusterVars, pc, queue, order, attempts,
                 historyVars, backend_settings, account_qos, m_resources, sync,
                 backendVars, reportVars, eventVars, driverVars>>

\* BaseBackend.pull_resources, one account: the next listed resource is read
\* from the cluster; ok fails when the backend raises, which leaves the pass
p_pull_resource ==
  /\ m_pc = "pull"
  /\ \E ok \in BOOLEAN :
       LET rest == Tail(m_frame.descriptors)
           report == resource_report
                       \o pull_resources(<<Head(m_frame.descriptors)>>, accounts, associations)
       IN IF ok
            THEN /\ resource_report' = report
                 /\ m_frame' = [m_frame EXCEPT !.descriptors = rest]
                 /\ m_pc' = IF rest # <<>> THEN "pull"
                            ELSE IF report # <<>> THEN "resources" ELSE "idle"
            ELSE /\ resource_report' = <<>>
                 /\ m_frame' = NoFrame
                 /\ m_pc' = "idle"
  /\ UNCHANGED <<configVars, cpVars, clusterVars, workerVars, historyVars,
                 backend_settings, account_qos, m_resources, sync,
                 backendVars, reportVars, eventVars, driverVars>>

\* _sync_slurm_resource_users: marketplace_resource_get_team for the next
\* pulled resource
p_get_team ==
  /\ m_pc = "resources"
  /\ LET resource == Head(resource_report)
         r == resource.marketplace_uuid
         rec == [NoSync EXCEPT !.local_usernames = resource.users]
     IN \E ok \in BOOLEAN :
          IF ok
            THEN /\ sync' = [sync EXCEPT ![r] = rec]
                 /\ m_frame' = [NoFrame EXCEPT !.team_user_uuids = team[r]]
                 /\ m_pc' = "offering_users"
                 /\ UNCHANGED <<m_resources, resource_report>>
            ELSE p_raised(r, rec, "waldur")
  /\ UNCHANGED <<configVars, cpVars, clusterVars, workerVars, historyVars,
                 backend_settings, account_qos, backendVars, reportVars, eventVars,
                 driverVars>>

\* _sync_slurm_resource_users: list_remote_offering_users, which with the
\* team read before fixes the usernames to add and to remove; the pass then
\* enters add_users_to_resource, or remove_users_from_account on a
\* restricted resource
p_list_offering_users ==
  /\ m_pc = "offering_users"
  /\ LET resource == Head(resource_report)
         r == resource.marketplace_uuid
         local_usernames == resource.users
         team_user_uuids == m_frame.team_user_uuids
         ous == unrestricted_offering_users(offering_users)
         restricted == resource.restrict_member_access
         to_add == new_offering_user_usernames(ous, local_usernames, team_user_uuids)
         to_remove ==
           IF restricted
             THEN existing_offering_user_usernames(ous, local_usernames, team_user_uuids)
             ELSE stale_offering_user_usernames(ous, local_usernames, team_user_uuids)
     IN \E ok \in BOOLEAN :
          IF ~ok THEN p_raised(r, sync[r], "waldur")
          ELSE /\ sync' = [sync EXCEPT ![r] =
                    IF restricted
                      THEN [@ EXCEPT !.remove_called = TRUE, !.remove = to_remove]
                      ELSE [@ EXCEPT !.add_called = TRUE, !.add = to_add]]
               /\ m_frame' = [m_frame EXCEPT
                    !.to_add = to_add, !.to_remove = to_remove,
                    !.todo = IF restricted THEN to_remove ELSE to_add]
               /\ m_pc' = IF restricted THEN "remove" ELSE "add"
               /\ UNCHANGED <<m_resources, resource_report>>
  /\ UNCHANGED <<configVars, cpVars, clusterVars, workerVars, historyVars,
                 backend_settings, account_qos, backendVars, reportVars, eventVars,
                 driverVars>>

\* SlurmBackend.add_users_to_resource, SlurmClient.get_association for one
\* more username: a username that has the association needs nothing, one
\* that has none goes on to create_association.  After the last username the
\* homedirs of the added users, and the pass enters remove_users_from_account
p_get_association ==
  /\ m_pc = "add"
  /\ LET resource == Head(resource_report)
         r == resource.marketplace_uuid
         account == resource.backend_id
     IN IF m_frame.todo # {}
          THEN \E n \in m_frame.todo :
                 /\ IF <<n, account>> \in associations
                      THEN m_frame' = [m_frame EXCEPT !.todo = @ \ {n}] /\ UNCHANGED m_pc
                      ELSE m_frame' = [m_frame EXCEPT !.username = n] /\ m_pc' = "create"
                 /\ UNCHANGED <<m_resources, resource_report, sync>>
        ELSE IF homedirs_raise(homedir_enabled, sync[r].added)
          THEN p_raised(r, sync[r], "other")
        ELSE /\ sync' = [sync EXCEPT ![r] =
                  [@ EXCEPT !.remove_called = TRUE, !.remove = m_frame.to_remove]]
             /\ m_frame' = [m_frame EXCEPT !.todo = m_frame.to_remove]
             /\ m_pc' = "remove"
             /\ UNCHANGED <<m_resources, resource_report>>
  /\ UNCHANGED <<configVars, cpVars, clusterVars, workerVars, historyVars,
                 backend_settings, account_qos, backendVars, reportVars, eventVars,
                 driverVars>>

\* SlurmClient.create_association for the username get_association found
\* none for.  When the association is there by now the command is a second
\* creation of it: the cluster may refuse it (raised), and the BackendError
\* takes the pass to the except clause of _process_resource
p_create_association ==
  /\ m_pc = "create"
  /\ LET resource == Head(resource_report)
         r == resource.marketplace_uuid
         n == m_frame.username
         pair == <<n, resource.backend_id>>
     IN \E raised \in BOOLEAN :
          /\ raised => pair \in associations
          /\ IF raised
               THEN /\ m_pc' = "mark"
                    /\ UNCHANGED <<associations, sync, m_frame, m_resources,
                                   resource_report>>
               ELSE /\ associations' = associations \cup {pair}
                    /\ sync' = [sync EXCEPT ![r].added = @ \cup {n}]
                    /\ m_frame' = [m_frame EXCEPT !.todo = @ \ {n}, !.username = ""]
                    /\ m_pc' = "add"
                    /\ UNCHANGED <<m_resources, resource_report>>
  /\ UNCHANGED <<configVars, cpVars, accounts, account_limits, workerVars, historyVars,
                 backend_settings, account_qos, backendVars, reportVars, eventVars,
                 driverVars>>

\* BaseBackend.remove_users_from_account: the association of one more
\* username, deleted when it is there; after the last one the pass enters
\* _sync_resource
p_remove_user ==
  /\ m_pc = "remove"
  /\ LET resource == Head(resource_report)
         account == resource.backend_id
     IN IF m_frame.todo # {}
          THEN \E n \in m_frame.todo :
                 /\ associations' = remove_user(associations, account, n).assoc
                 /\ m_frame' = [m_frame EXCEPT !.todo = @ \ {n}]
                 /\ UNCHANGED m_pc
          ELSE /\ m_pc' = "qos"
               /\ UNCHANGED <<associations, m_frame>>
  /\ UNCHANGED <<configVars, cpVars, accounts, account_limits, workerVars, historyVars,
                 backend_settings, account_qos, m_resources, resource_report, sync,
                 backendVars, reportVars, eventVars, driverVars>>

\* _sync_resource: pause, downscale or restore.  Without a QoS name the
\* operation returns False; downscale with one raises; pause and restore
\* with one set the QoS of the account, or raise when the command fails (ok)
p_sync_resource ==
  /\ m_pc = "qos"
  /\ LET resource == Head(resource_report)
         r == resource.marketplace_uuid
         account == resource.backend_id
         qos == qos_operation(resource, backend_settings)
         rec == [sync[r] EXCEPT !.qos_op = qos[1]]
     IN \E ok \in BOOLEAN :
          IF downscale_raises(qos)
            THEN ok /\ p_raised(r, rec, "other") /\ UNCHANGED account_qos
          ELSE IF qos[2] # "" /\ ~ok
            THEN p_raised(r, rec, "backend") /\ UNCHANGED account_qos
          ELSE /\ qos[2] = "" => ok
               /\ account_qos' = IF qos[2] # "" THEN [account_qos EXCEPT ![account] = qos[2]]
                                 ELSE account_qos
               /\ sync' = [sync EXCEPT ![r] = [rec EXCEPT !.qos_done = qos[2] # ""]]
               /\ m_pc' = "metadata"
               /\ UNCHANGED <<m_resources, resource_report, m_frame>>
  /\ UNCHANGED <<configVars, cpVars, clusterVars, workerVars, historyVars,
                 backend_settings, backendVars, reportVars, eventVars, driverVars>>

\* _sync_resource: get_resource_metadata and set_backend_metadata; nothing
\* beside the pass changes the QoS, so the two are one step.  ok fails when
\* the control plane refuses the metadata
p_set_backend_metadata ==
  /\ m_pc = "metadata"
  /\ LET resource == Head(resource_report)
         r == resource.marketplace_uuid
         account == resource.backend_id
     IN \E ok \in BOOLEAN :
          IF ~ok THEN p_raised(r, sync[r], "waldur")
          ELSE /\ m_resources' = [m_resources EXCEPT ![r].backend_metadata = account_qos[account]]
               /\ sync' = [sync EXCEPT ![r].processed = TRUE]
               /\ resource_report' = Tail(resource_report)
               /\ m_pc' = IF Tail(resource_report) = <<>> THEN "idle" ELSE "resources"
               /\ m_frame' = NoFrame
  /\ UNCHANGED <<configVars, cpVars, clusterVars, workerVars, historyVars,
                 backend_settings, account_qos, backendVars, reportVars, eventVars,
                 driverVars>>

\* _get_user_offering_users: the unrestricted offering users of the user
get_user_offering_users(ous, user_uuid) ==
  {x \in ous : x.user_uuid = user_uuid /\ ~x.is_restricted}

\* control plane: a user gains or loses the role on the project of the
\* resources, and the notification for it is queued for the handler
user_role_changed ==
  /\ e_pc = "idle"
  /\ e_events < MaxEvents
  /\ e_events' = e_events + 1
  /\ \E u \in UserIds, granted \in BOOLEAN :
       /\ \E r \in DOMAIN team : (u \in team[r]) # granted
       /\ team' = [r \in DOMAIN team |->
                     IF granted THEN team[r] \cup {u} ELSE team[r] \ {u}]
       /\ e_event' = [user_uuid |-> u, granted |-> granted, username |-> ""]
  /\ e_pc' = "notified"
  /\ e_report' = <<>>
  /\ e_op' = NoCall
  /\ e_frame' = NoEventFrame
  /\ e_done' = {}
  /\ UNCHANGED <<configVars, orders, resources, offering_users, clusterVars, workerVars,
                 historyVars, memberVars, backendVars, reportVars, driverVars>>

\* the exception of a call made before the loop leaves process_user_role_changed
e_raised ==
  /\ e_pc' = "idle"
  /\ e_report' = <<>>
  /\ e_frame' = NoEventFrame
  /\ e_op' = [op |-> "raised"]

\* process_user_role_changed, _get_user_offering_users: the username of the
\* user's offering user; the handler returns when there is none or it is blank
e_get_user_offering_users ==
  /\ e_pc = "notified"
  /\ \E ok \in BOOLEAN :
       LET ous == get_user_offering_users(offering_users, e_event.user_uuid)
           username == IF ous = {} THEN "" ELSE (CHOOSE x \in ous : TRUE).username
       IN IF ~ok THEN e_raised /\ UNCHANGED e_event
          ELSE /\ e_event' = [e_event EXCEPT !.username = username]
               /\ e_pc' = IF username # "" THEN "list" ELSE "idle"
               /\ e_op' = [op |-> IF ous = {} THEN "not linked"
                                  ELSE IF username = "" THEN "blank" ELSE "linked"]
               /\ UNCHANGED <<e_report, e_frame>>
  /\ UNCHANGED <<configVars, cpVars, clusterVars, workerVars, historyVars, memberVars,
                 backendVars, reportVars, e_done, e_events, driverVars>>

\* process_user_role_changed, _get_waldur_resources: the control plane lists
\* the resources it has in state OK
e_get_waldur_resources ==
  /\ e_pc = "list"
  /\ \E ok \in BOOLEAN :
       LET descriptors == get_waldur_resources(listed_ids(m_resources), m_resources)
       IN IF ~ok THEN e_raised
          ELSE /\ e_frame' = [e_frame EXCEPT !.descriptors = descriptors]
               /\ e_pc' = IF descriptors # <<>> THEN "pull" ELSE "idle"
               /\ e_op' = [op |-> "listed"]
               /\ e_report' = <<>>
  /\ UNCHANGED <<configVars, cpVars, clusterVars, workerVars, historyVars, memberVars,
                 backendVars, reportVars, e_event, e_done, e_events, driverVars>>

\* process_user_role_changed, BaseBackend.pull_resources, one account: the
\* next listed resource is read from the cluster, and left out when the
\* cluster has no account for it
e_pull_resource ==
  /\ e_pc = "pull"
  /\ \E ok \in BOOLEAN :
       LET rest == Tail(e_frame.descriptors)
           report == e_report
                       \o pull_resources(<<Head(e_frame.descriptors)>>, accounts, associations)
       IN IF ~ok THEN e_raised
          ELSE /\ e_report' = report
               /\ e_frame' = [e_frame EXCEPT !.descriptors = rest]
               /\ e_pc' = IF rest # <<>> THEN "pull"
                          ELSE IF report # <<>> THEN "resources" ELSE "idle"
               /\ e_op' = [op |-> "pulled"]
  /\ UNCHANGED <<configVars, cpVars, clusterVars, workerVars, historyVars, memberVars,
                 backendVars, reportVars, e_event, e_done, e_events, driverVars>>

\* process_user_role_changed: "The resource is restricted, skipping new role."
skips_new_role(granted, resource) == granted /\ resource.restrict_member_access

\* the loop of process_user_role_changed is done with the resource at the
\* head of e_report, op telling what it did for it
e_next(op) ==
  /\ e_done' = e_done \cup {<<Head(e_report).marketplace_uuid, op>>}
  /\ e_report' = Tail(e_report)
  /\ e_pc' = IF Tail(e_report) = <<>> THEN "idle" ELSE "resources"

\* process_user_role_changed, one iteration of the loop, its first command:
\* nothing for a granted role on a restricted resource, remove_user for a
\* revoked role, SlurmClient.get_association of add_user for a granted one,
\* which goes on to create_association when it finds none.  raised tells
\* whether the command fails on the cluster; the except clause logs it.
e_process_resource ==
  /\ e_pc = "resources"
  /\ LET resource == Head(e_report)
         account == resource.backend_id
         username == e_event.username
         op(name, r, c, d) == [op |-> name, account |-> account, raised |-> r,
                               created |-> c, deleted |-> d, existed |-> FALSE]
     IN \E raised \in BOOLEAN :
          IF skips_new_role(e_event.granted, resource)
            THEN /\ ~raised
                 /\ e_op' = op("skipped", FALSE, FALSE, FALSE)
                 /\ e_next("skipped")
                 /\ UNCHANGED associations
          ELSE IF raised
            THEN /\ e_op' = op(IF e_event.granted THEN "add_user" ELSE "remove_user",
                               TRUE, FALSE, FALSE)
                 /\ e_next("raised")
                 /\ UNCHANGED associations
          ELSE IF ~e_event.granted
            THEN LET res == remove_user(associations, account, username)
                 IN /\ associations' = res.assoc
                    /\ e_op' = op("remove_user", FALSE, FALSE, res.deleted)
                    /\ e_next("remove_user")
          ELSE IF <<username, account>> \in associations
            THEN /\ e_op' = op("add_user", FALSE, FALSE, FALSE)
                 /\ e_next("add_user")
                 /\ UNCHANGED associations
          ELSE /\ e_op' = op("get_association", FALSE, FALSE, FALSE)
               /\ e_pc' = "create"
               /\ UNCHANGED <<associations, e_report, e_done>>
  /\ UNCHANGED <<configVars, cpVars, accounts, account_limits, workerVars, historyVars,
                 memberVars, backendVars, reportVars, e_event, e_frame, e_events,
                 driverVars>>

\* process_user_role_changed, SlurmClient.create_association of add_user for
\* the username get_association found none for; existed tells that the
\* association was there by the time of the command
e_create_association ==
  /\ e_pc = "create"
  /\ LET account == Head(e_report).backend_id
         pair == <<e_event.username, account>>
     IN \E raised \in BOOLEAN :
          /\ associations' = IF raised THEN associations ELSE associations \cup {pair}
          /\ e_op' = [op |-> "add_user", account |-> account, raised |-> raised,
                      created |-> ~raised, deleted |-> FALSE,
                      existed |-> pair \in associations]
          /\ e_next(IF raised THEN "raised" ELSE "add_user")
  /\ UNCHANGED <<configVars, cpVars, accounts, account_limits, workerVars, historyVars,
                 memberVars, backendVars, reportVars, e_event, e_frame, e_events,
                 driverVars>>

\* _process_resource, except clause after the refused creation: the call that
\* marks the resource erred on the control plane
p_mark_waldur_resources_as_erred ==
  /\ m_pc = "mark"
  /\ LET r == Head(resource_report).marketplace_uuid
     IN p_raised(r, sync[r], "backend")
  /\ UNCHANGED <<configVars, cpVars, clusterVars, workerVars, historyVars,
                 backend_settings, account_qos, backendVars, reportVars, eventVars,
                 driverVars>>

InitRace ==
  /\ impl = "processors"
  /\ offering_type = MARKETPLACE_SLURM_OFFERING_TYPE
  /\ backend_components = DefaultComponents
  /\ homedir_enabled \in BOOLEAN
  /\ OrderIdle
  /\ BackendIdle
  /\ ReportIdle
  /\ EventIdle
  /\ DriverIdle
  /\ \E t \in TeamsOfPasses : team = [r \in ReportResources |-> t]
  /\ offering_users = {offering_user("ua", "alice", FALSE), offering_user("ub", "bob", FALSE),
                       offering_user("uc", "", FALSE)}
  /\ accounts = {AccountOf(r) : r \in ReportResources}
  /\ account_limits = [b \in accounts |-> EmptyDict]
  /\ associations \in {{}, {<<"bob", "a1">>, <<"bob", "a2">>}}
  /\ backend_settings = NoSettings
  /\ account_qos = [b \in accounts |-> "normal"]
  /\ \E restricted \in BOOLEAN :
       m_resources = [r \in ReportResources |->
         [state |-> "OK", backend_id |-> AccountOf(r),
          restrict_member_access |-> restricted /\ r = "r2", paused |-> FALSE,
          downscaled |-> FALSE, backend_metadata |-> "none"]]
  /\ m_pc = "idle"
  /\ resource_report = <<>>
  /\ m_frame = NoFrame
  /\ sync = [r \in ReportResources |-> NoSync]

NextRace ==
  \/ p_get_waldur_resources
  \/ p_pull_resource
  \/ p_get_team
  \/ p_list_offering_users
  \/ p_get_association
  \/ p_create_association
  \/ p_mark_waldur_resources_as_erred
  \/ p_remove_user
  \/ p_sync_resource
  \/ p_set_backend_metadata
  \/ user_role_changed
  \/ e_get_user_offering_users
  \/ e_get_waldur_resources
  \/ e_pull_resource
  \/ e_process_resource
  \/ e_create_association

SpecRace == InitRace /\ [][NextRace]_vars

\* ---------------------------------------------------------------- C17
\* C17 as stated: with the calls of the membership pass and of the role-change
\* handler interleaved, no association is created twice: a creation command
\* of either task is issued for a (user, account) that has no association; no
\* operation fails because the other task did it already: the creation
\* command of the pass is not refused; and no resource is marked erred after
\* a refused creation.
RaceIsSafe ==
  [][/\ (e_pc = "create" /\ e_pc' # "create") =>
          /\ <<e_event.username, Head(e_report).backend_id>> \notin associations
          /\ m_resources' = m_resources
     /\ (m_pc = "create" /\ m_pc' # "create") =>
          /\ <<m_frame.username, Head(resource_report).backend_id>> \notin associations
          /\ m_pc' # "mark"
     /\ m_pc = "mark" => m_resources' = m_resources]_vars

\* ------------------------------------------------------- the driver loop
\* start and process_offerings of agent_order_process.py, agent_report.py
\* and agent_membership_sync.py: the three are the same loop around a
\* different processor class.  The pass of the processor is taken as a whole:
\* it returns, or an exception leaves it.

OfferingNames == <<"f1", "f2", "f3">>
Offerings == {OfferingNames[i] : i \in 1..Len(OfferingNames)}
BackendTypes == {"slurm", "moab", "custom", "other"}
NotProcessed == [stage |-> "none", exc |-> "none"]

InitDriver ==
  /\ impl = "processors"
  /\ offering_type = MARKETPLACE_SLURM_OFFERING_TYPE
  /\ team = [r \in {} |-> {}]
  /\ offering_users = {}
  /\ OrderIdle
  /\ MemberIdle
  /\ ReportIdle
  /\ EventIdle
  /\ backend_components = DefaultComponents
  /\ homedir_enabled = FALSE
  /\ accounts = {}
  /\ account_limits = [b \in {} |-> EmptyDict]
  /\ associations = {}
  /\ BackendIdle
  /\ d_offerings \in [Offerings -> BackendTypes]
  /\ d_pc = "sleep"
  /\ d_queue = <<>>
  /\ d_log = [f \in Offerings |-> NotProcessed]
  /\ d_running = TRUE

\* common_utils.get_backend_for_offering: the backend_type of the backend it
\* returns; only a slurm offering gets a SlurmBackend
get_backend_for_offering(backend_type) ==
  IF backend_type = "slurm" THEN "slurm" ELSE "unknown"

\* OfferingBaseProcessor.__init__: the exception it raises.  cp_ok tells
\* whether get_current_user and _get_offering succeed
processor_init(backend_type, cp_ok) ==
  IF get_backend_for_offering(backend_type) = "unknown" THEN "backend"
  ELSE IF ~cp_ok THEN "waldur"
  ELSE "none"

\* an except clause that names BackendError only
caught_backend_error_only(exc) == exc = "backend"

\* process_offerings: except Exception around the construction of the
\* processor and its pass
caught(exc) == TRUE

\* start: except Exception around process_offerings
caught_by_start(exc) == TRUE

\* start, one iteration of while True: the sleep ends and process_offerings
\* begins
start ==
  /\ d_pc = "sleep"
  /\ d_running
  /\ passes < MaxPasses
  /\ passes' = passes + 1
  /\ d_queue' = OfferingNames
  /\ d_log' = [f \in Offerings |-> NotProcessed]
  /\ d_pc' = IF OfferingNames = <<>> THEN "sleep" ELSE "offerings"
  /\ UNCHANGED <<configVars, cpVars, clusterVars, pc, queue, order, attempts, historyVars,
                 memberVars, backendVars, reportVars, eventVars, d_offerings, d_running>>

\* process_offerings, one iteration: construct the processor of the next
\* offering and run its pass
process_offerings ==
  /\ d_pc = "offerings"
  /\ LET f == Head(d_queue)
     IN \E cp_ok \in BOOLEAN, pass_exc \in {"none", "waldur", "backend", "other"} :
          LET init_exc == processor_init(d_offerings[f], cp_ok)
              exc == IF init_exc # "none" THEN init_exc ELSE pass_exc
          IN /\ init_exc # "none" => pass_exc = "none"
             /\ d_log' = [d_log EXCEPT ![f] =
                   [stage |-> IF init_exc # "none" THEN "init" ELSE "pass", exc |-> exc]]
             /\ IF exc = "none" \/ caught(exc)
                  THEN /\ d_queue' = Tail(d_queue)
                       /\ d_pc' = IF Tail(d_queue) = <<>> THEN "sleep" ELSE "offerings"
                       /\ UNCHANGED d_running
                ELSE IF caught_by_start(exc)
                  THEN /\ d_queue' = <<>>
                       /\ d_pc' = "sleep"
                       /\ UNCHANGED d_running
                ELSE /\ d_queue' = <<>>
                     /\ d_pc' = "exited"
                     /\ d_running' = FALSE
  /\ UNCHANGED <<configVars, cpVars, clusterVars, workerVars, historyVars,
                 memberVars, backendVars, reportVars, eventVars, d_offerings>>

NextDriver ==
  \/ start
  \/ process_offerings

SpecDriver == InitDriver /\ [][NextDriver]_vars

\* the loop does not stop by itself: sleep returns, and a call of the
\* processor returns or raises
SpecDriverFair == SpecDriver /\ WF_vars(NextDriver)

\* ---------------------------------------------------------------- C18
\* C18: the driver never terminates; whatever the processor of one offering
\* raises, its construction included, each offering of the pass is processed
\* in that pass, the pass ends in the sleep, and the loop goes on to the next
\* pass.
DriverNeverStops ==
  /\ []d_running
  /\ \A f \in Offerings : (d_pc = "offerings" /\ d_log[f] = NotProcessed) ~> (d_log[f] # NotProcessed)
  /\ (d_pc = "offerings") ~> (d_pc = "sleep")
  /\ \A n \in 0..(MaxPasses - 1) : (passes = n) ~> (passes = n + 1)

\* C18 witness: in the second pass the processor of the first offering could
\* not be constructed, the pass of the second raised, and the third offering
\* was processed
DriverWitness ==
  /\ passes = 2
  /\ d_log["f1"].stage = "init" /\ d_log["f1"].exc = "waldur"
  /\ d_log["f2"].stage = "pass" /\ d_log["f2"].exc = "other"
  /\ d_log["f3"].stage = "pass" /\ d_log["f3"].exc = "none"
  /\ d_pc = "sleep"
  /\ d_running

\* ---------------------------------------------------------------- C19
\* C19 as stated: once the processor of an offering could not be constructed
\* (backend of an unsupported kind, control plane unreachable), the process
\* has terminated.
FatalErrorTerminates ==
  \A f \in Offerings : d_log[f].stage = "init" => ~d_running

\* ---------------------------------------------------------------- C20
\* C20 as stated: an order that process_order of processors.py has processed
\* is marked done exactly when its handler reported success, marked erred
\* exactly when an exception was raised, and never both.
OneOutcomePerOrder ==
  \A o \in Orders :
    outcome[o] # "none" =>
      /\ "done" \in transitions[o] <=> outcome[o] \in {"true", "done_failed"}
      /\ "erred" \in transitions[o] <=> outcome[o] \in RaisedOutcomes \cup {"done_failed"}
      /\ ~("done" \in transitions[o] /\ "erred" \in transitions[o])

\* C20 amended: the order is marked done exactly when the handler reported
\* success and set_state_done did not raise; set_state_erred is called exactly
\* when an exception was raised, by a step of the processing or by
\* set_state_done, and marks the order unless it raises itself; the order is
\* never marked both, and an unmarked order is still open.
OneOutcomeUnlessMarkingFails ==
  \A o \in Orders :
    outcome[o] # "none" =>
      /\ "done" \in transitions[o] <=> outcome[o] = "true"
      /\ transitions[o] \cap {"erred", "erred_failed"} # {}
           <=> outcome[o] \in RaisedOutcomes \cup {"done_failed"}
      /\ Cardinality(transitions[o] \cap {"done", "erred", "erred_failed"}) <= 1
      /\ orders[o].state =
           IF "done" \in transitions[o] THEN "done"
           ELSE IF "erred" \in transitions[o] THEN "erred"
           ELSE IF fetched[o] = "pending-provider" /\ "approve" \notin transitions[o]
             THEN "pending-provider"
           ELSE "executing"

\* C20 witness: the handler of the first order succeeded, set_state_done
\* raised and the order was marked erred; the second order was marked done
OneOutcomeWitness ==
  /\ outcome["o1"] = "done_failed"
  /\ transitions["o1"] \cap {"done", "erred", "erred_failed"} = {"erred"}
  /\ orders["o1"].state = "erred"
  /\ outcome["o2"] = "true"
  /\ orders["o2"].state = "done"

\* the positions of the order worker inside a dispatched handler
DispatchPhases == {"wait_resource", "wait_allocation", "create", "update", "terminate"}

\* ---------------------------------------------------------------- C21
\* C21: an order is approved only when the pass fetched it in a state other
\* than executing; an order fetched so and not approved had its approval
\* raise, and nothing was dispatched for it; a handler runs only on an order
\* fetched as executing or approved by this processing, and the order dict it
\* holds is the refreshed one, in state executing.
ApprovalBeforeDispatch ==
  \A o \in Orders :
    /\ "approve" \in transitions[o] => fetched[o] = "pending-provider"
    /\ (fetched[o] = "pending-provider" /\ "approve" \notin transitions[o]) =>
         /\ outcome[o] = "waldur"
         /\ calls[o] = {}
    /\ (order.uuid = o /\ pc \in DispatchPhases) =>
         /\ fetched[o] = "executing" \/ "approve" \in transitions[o]
         /\ order.state = "executing"
         /\ orders[o].state = "executing"
    /\ calls[o] # {} => fetched[o] = "executing" \/ "approve" \in transitions[o]

\* C21 witness: the second pass fetched the first order as executing and
\* completed it without approving it; the second order was approved by the
\* pass that fetched it as pending-provider and then completed
ApprovalWitness ==
  /\ passes = 2
  /\ fetched["o1"] = "executing"
  /\ "approve" \notin transitions["o1"]
  /\ outcome["o1"] = "true" /\ calls["o1"] # {}
  /\ fetched["o2"] = "pending-provider"
  /\ "approve" \in transitions["o2"]
  /\ outcome["o2"] = "true" /\ calls["o2"] # {}

\* a step that ends _process_create_order after its wait loops
CreateStep == pc = "create" /\ pc' # "create"

\* ---------------------------------------------------------------- C22
\* C22: in the processing of a Create order the backend resource is created
\* before its backend id is persisted, the id is persisted before the limits
\* are pushed, and the limits are pushed before users are added; when the
\* creation raises or returns an empty backend id, no backend id is written
\* and no user is added.
CreateStepsOrdered ==
  [][CreateStep =>
       LET o == order.uuid
           persisted == resources'[o].backend_id # resources[o].backend_id
           pushed == resources'[o].alloc_limits # resources[o].alloc_limits
           users == "add_users_to_resource" \in calls'[o]
       IN /\ persisted => /\ created'[o].backend_id # ""
                          /\ created'[o].backend_id \in accounts'
                          /\ resources'[o].backend_id = created'[o].backend_id
          /\ pushed => /\ resources'[o].backend_id = created'[o].backend_id
                       /\ resources'[o].alloc_backend_id = created'[o].backend_id
          /\ users => pushed /\ resources'[o].alloc_state = "OK"
          /\ associations' # associations => users
          /\ created'[o].backend_id = "" =>
               /\ ~persisted /\ ~pushed /\ ~users
               /\ associations' = associations
               /\ outcome'[o] \in RaisedOutcomes]_vars

\* C22 witness: a Create order went through the four steps: its account is
\* on the cluster, the id and the limits are on the control plane, and a user
\* of the team holds an association on the account
CreateStepsWitness ==
  \E o \in Orders :
    /\ orders[o].type = "Create"
    /\ "add_users_to_resource" \in calls[o]
    /\ created[o].backend_id \in accounts
    /\ resources[o].backend_id = created[o].backend_id
    /\ resources[o].alloc_limits # <<>>
    /\ \E u \in order_usernames(o) : <<u, created[o].backend_id>> \in associations

\* ---------------------------------------------------------------- C23
\* C23 as stated: when the processing of a Create order calls add_users_to_resource, the
\* resource is not access-restricted and the users holding an association on
\* the new account are exactly the usernames of the unrestricted offering
\* users, with a username, whose user is on the team; for an access-restricted
\* resource no association is made on the new account.
CreateAddsUsersUnlessRestricted ==
  \A o \in Orders :
    (orders[o].type = "Create" /\ created[o].backend_id # "") =>
      /\ "add_users_to_resource" \in calls[o] =>
           /\ ~resources[o].restrict_member_access
           /\ account_users(associations, created[o].backend_id) = order_usernames(o)
      /\ resources[o].restrict_member_access =>
           account_users(associations, created[o].backend_id) = {}

\* ---------------------------------------------------------------- C24
\* C24: the processing of a Create order whose resource uuid is not
\* well-formed ends with an exception and without a backend call: no account
\* is created, no association is added, no limit is set, and nothing is
\* written to the control-plane resource.
InvalidUuidAbortsBeforeBackend ==
  [][(CreateStep /\ ~resources[order.uuid].uuid_ok) =>
       /\ accounts' = accounts
       /\ associations' = associations
       /\ account_limits' = account_limits
       /\ resources' = resources
       /\ calls'[order.uuid] = {}
       /\ created'[order.uuid] = NoResource
       /\ outcome'[order.uuid] \in {"backend", "waldur"}
       /\ "done" \notin transitions'[order.uuid]]_vars

\* C24 witness: a Create order with a malformed resource uuid reached
\* _create_resource and was marked erred for the BackendError
InvalidUuidWitness ==
  \E o \in Orders :
    /\ orders[o].type = "Create"
    /\ ~resources[o].uuid_ok
    /\ orders[o].mr
    /\ outcome[o] = "backend"
    /\ orders[o].state = "erred"
    /\ calls[o] = {}

\* ---------------------------------------------------------------- C25
\* C25: once a control-plane resource has a backend id, no later step of any
\* pass writes its backend id again.
BackendIdAssignedOnce ==
  [][\A o \in Orders :
       resources[o].backend_id # "" =>
         resources'[o].backend_id = resources[o].backend_id]_vars

\* ---------------------------------------------------------------- C26
\* C26: in either wait loop of _process_create_order the order has been
\* refreshed at most max_attempts (4) times; attempts counts the refreshes of
\* the loop the worker is in.
WaitRefreshesWithinBudget ==
  pc \in {"wait_resource", "wait_allocation"} => attempts <= max_attempts

\* ---------------------------------------------------------------- C27
\* C27: for a restricted resource the pass removes exactly the usernames of
\* the unrestricted offering users that are in local_usernames, on the team or
\* not, so that no offering username is left with a grant on the resource.
RestrictedRevokesEveryOfferingGrant ==
  \A r \in MemberResources :
    (sync[r].processed /\ m_resources[r].restrict_member_access
       /\ sync[r].remove_called) =>
      /\ sync[r].remove =
           {y.username : y \in {x \in unrestricted_offering_users(offering_users) :
                                  x.username \in sync[r].local_usernames}}
      /\ \A y \in unrestricted_offering_users(offering_users) :
           <<y.username, AccountOf(r)>> \notin associations

\* ---------------------------------------------------------------- C28
\* C28 as stated: for every processed resource, restricted or not, exactly
\* one of pause, downscale, restore is invoked: pause when paused is set,
\* downscale when only downscaled is set, restore otherwise.
OneScalingOperationByPriority ==
  \A r \in MemberResources :
    sync[r].processed =>
      sync[r].qos_op =
        (IF m_resources[r].paused THEN "pause"
         ELSE IF m_resources[r].downscaled THEN "downscale"
         ELSE "restore")

\* ---------------------------------------------------------------- C29
\* the resource's backend metadata was sent to the control plane by a pass
metadata_refreshed(r) == m_resources[r].backend_metadata # "none"

\* C29: every processed resource has its backend metadata refreshed, also when
\* the membership sync or the pause/downscale/restore call raised; the only
\* case left out is the refreshing call itself failing.
MetadataAlwaysRefreshed ==
  \A r \in MemberResources :
    (sync[r].processed /\ ~(sync[r].exc = "waldur" /\ sync[r].qos_op # "none")) =>
      metadata_refreshed(r)

\* ---------------------------------------------------------------- C30
\* C30: a failing pause/downscale/restore never marks the resource erred, and
\* with no QoS name configured for the chosen operation it issues no backend
\* command and raises nothing.
ScalingFailureOnlyLogged ==
  \A r \in MemberResources :
    sync[r].processed =>
      /\ (sync[r].qos_op # "none" /\ sync[r].exc \in {"backend", "other"}) =>
           m_resources[r].state # "Erred"
      /\ (sync[r].qos_op # "none" /\ qos_operation(m_resources[r], backend_settings)[2] = "") =>
           /\ ~sync[r].qos_done
           /\ sync[r].exc # "backend"
           /\ account_qos[AccountOf(r)] = "normal"

\* ---------------------------------------------------------------- C31
\* C31 as stated: when the handler has served the notification for a user
\* with a non-blank username, every resource of the offering was handled: for
\* a granted role add_user was called on every non-restricted resource and
\* nothing on a restricted one, for a revoked role remove_user was called on
\* every resource, a call that raised being logged and the loop going on.
RoleChangeHandledPerResource ==
  (e_pc = "idle" /\ e_event.username # "" /\ e_op.op # "raised") =>
    \A r \in DOMAIN m_resources :
      LET ops == {d[2] : d \in {x \in e_done : x[1] = r}}
      IN IF skips_new_role(e_event.granted, m_resources[r])
           THEN ops \subseteq {"skipped"}
           ELSE /\ ops # {}
                /\ ops \subseteq {IF e_event.granted THEN "add_user" ELSE "remove_user",
                                   "raised"}

\* ---------------------------------------------------------------- C32
\* C32: in a report pass a resource listed as Erred is set OK only when the
\* pull returned it, usage is submitted for it only after that call, and it is
\* OK afterwards only if its processing raised nothing: a resource whose
\* processing raised is Erred when the pass is over.
ErredRecoveredOnlyBySuccess ==
  \A r \in ReportResources :
    /\ rep[r].set_ok =>
         /\ rep[r].processed /\ rep[r].state = RESOURCE_ERRED_STATE
         /\ m_resources[r].backend_id \in accounts
    /\ (rep[r].state = RESOURCE_ERRED_STATE
          /\ (rep[r].total_calls > 0 \/ rep[r].user_rows # {})) => rep[r].set_ok
    /\ (rep[r].state = RESOURCE_ERRED_STATE /\ m_resources[r].state = "OK") =>
         rep[r].processed /\ rep[r].set_ok /\ rep[r].exc = "none"
    /\ (rep[r].processed /\ rep[r].exc # "none") =>
         m_resources[r].state = RESOURCE_ERRED_STATE

\* C32 witness: of two resources listed as Erred, one was set OK and had its
\* usage submitted, the other was set OK and marked erred again by a later
\* failure
ErredRecoveryWitness ==
  /\ rep["r1"].state = RESOURCE_ERRED_STATE /\ rep["r2"].state = RESOURCE_ERRED_STATE
  /\ rep["r1"].set_ok /\ rep["r1"].total_calls = 1 /\ rep["r1"].exc = "none"
  /\ m_resources["r1"].state = "OK"
  /\ rep["r2"].set_ok /\ rep["r2"].exc # "none"
  /\ m_resources["r2"].state = RESOURCE_ERRED_STATE

\* ---------------------------------------------------------------- C33
\* C33 as stated: for a resource without a plan period the report pass
\* submits no usage, total or per-user, and the absence alone neither raises
\* nor marks the resource erred: unless another call failed the resource ends
\* the pass OK and unmarked.
NoPlanPeriodSkipsSubmission ==
  \A r \in ReportResources :
    (rep[r].processed /\ ~m_resources[r].plan_period) =>
      /\ rep[r].total_calls = 0 /\ rep[r].total = EmptyDict
      /\ rep[r].user_rows = {}
      /\ rep[r].exc = "none" =>
           rep[r].error_marks = 0 /\ m_resources[r].state = "OK"

\* ---------------------------------------------------------------- C34
\* Report passes over a month in which the jobs of one user did not allocate
\* every tracked TRES, with an offering that may declare fewer or more
\* components than the cluster reports ("gpu" is declared only).

DeclaredComponents == {Components, {"cpu"}, Components \cup {"gpu"}}

DeclaredLines ==
  { <<usage_line("a1", "alice", 2)>>,
    <<usage_line("a1", "alice", 2),
      [account |-> "a1", user |-> "bob", tres_usage |-> [c \in {"cpu"} |-> 1]]>>,
    <<usage_line("a1", "alice", 2), usage_line("a2", "bob", 1)>> }

InitDeclared ==
  /\ impl = "processors"
  /\ offering_type = MARKETPLACE_SLURM_OFFERING_TYPE
  /\ backend_components = DefaultComponents
  /\ homedir_enabled = TRUE
  /\ OrderIdle
  /\ team = [r \in ReportResources |-> {}]
  /\ offering_users = {offering_user("ua", "alice", FALSE)}
  /\ accounts = {AccountOf(r) : r \in ReportResources}
  /\ account_limits = [b \in accounts |-> EmptyDict]
  /\ associations = {}
  /\ backend_settings = NoSettings
  /\ account_qos = [b \in accounts |-> "normal"]
  /\ \E pp \in [ReportResources -> BOOLEAN] :
       m_resources = [r \in ReportResources |->
         [state |-> "OK", backend_id |-> AccountOf(r), plan_period |-> pp[r],
          component_usages |-> {}, alloc_state |-> "OK"]]
  /\ m_pc = "idle"
  /\ resource_report = <<>>
  /\ m_frame = NoFrame
  /\ sync = [r \in {} |-> NoSync]
  /\ usage_lines \in DeclaredLines
  /\ b_call = NoCall
  /\ b_calls = 0
  /\ waldur_offering \in [components : DeclaredComponents]
  /\ r_pc = "idle"
  /\ r_resource_report = <<>>
  /\ rep = [r \in ReportResources |-> NoRep]
  /\ EventIdle
  /\ DriverIdle

SpecDeclared == InitDeclared /\ [][NextReport]_vars

\* C34: what a report pass submits, total or per-user, is of a component both
\* reported and declared on the control plane; a mismatch between the two
\* sides raises nothing and never gets the resource marked erred.
OnlyDeclaredAndReportedSubmitted ==
  \A r \in ReportResources :
    rep[r].processed =>
      /\ DOMAIN rep[r].total \subseteq
           waldur_offering.components \cap DOMAIN rep[r].usage[TOTAL_ACCOUNT_USAGE]
      /\ \A row \in rep[r].user_rows :
           /\ row[2] \in m_resources[r].component_usages
           /\ row[2] \in DOMAIN rep[r].usage[row[1]]
      /\ rep[r].exc # "other"
      /\ rep[r].error_marks = 1 => rep[r].exc = "waldur"

\* ------------------------------------------------- deleting a resource
\* BaseBackend.delete_resource and SlurmClient.delete_account, one sacctmgr
\* command per step; raised tells whether the command fails on the cluster.
\* b_call holds the deletion under way: its account, the step it is at, the
\* commands issued so far and the users the account had when "remove account"
\* was issued.

DeleteUsernames == {"alice", "bob"}

InitDelete ==
  /\ BackendConfig
  /\ backend_components = DefaultComponents
  /\ homedir_enabled = FALSE
  /\ accounts \in SUBSET BackendAccounts
  /\ account_limits = [b \in accounts |-> EmptyDict]
  /\ associations \in SUBSET (DeleteUsernames \X accounts)
  /\ BackendIdle

\* a check that never finds a user
account_has_users_never(assoc, account) == FALSE

\* SlurmClient.account_has_users: an association of the account names a user
account_has_users(assoc, account) ==
  \E a \in assoc : a[2] = account /\ a[1] # ""

Deleting == b_call.op = "delete_resource" /\ b_call.step # "done"

\* BaseBackend.delete_resource(account): nothing to do for an account the
\* cluster does not have, else SlurmClient.delete_account
b_delete_resource ==
  /\ ~Deleting
  /\ b_calls < MaxCalls
  /\ b_calls' = b_calls + 1
  /\ \E account \in BackendAccounts :
       b_call' = [op |-> "delete_resource", account |-> account,
                  absent |-> account \notin accounts,
                  step |-> IF account \in accounts THEN "has_users" ELSE "done",
                  commands |-> <<>>, at_removal |-> {}, error |-> "none"]
  /\ UNCHANGED <<configVars, cpVars, clusterVars, workerVars, historyVars, memberVars,
                 usage_lines, reportVars, eventVars, driverVars>>

\* delete_account: account_has_users (sacctmgr show association)
b_account_has_users ==
  /\ Deleting /\ b_call.step = "has_users"
  /\ \E raised \in BOOLEAN :
       b_call' = [b_call EXCEPT
         !.commands = Append(@, "show association"),
         !.error = IF raised THEN "BackendError" ELSE "none",
         !.step = IF raised THEN "done"
                  ELSE IF account_has_users(associations, b_call.account)
                    THEN "remove_users" ELSE "remove_account"]
  /\ UNCHANGED <<configVars, cpVars, clusterVars, workerVars, historyVars, memberVars,
                 usage_lines, b_calls, reportVars, eventVars, driverVars>>

\* delete_account: delete_all_users_from_account (sacctmgr remove user)
b_delete_all_users_from_account ==
  /\ Deleting /\ b_call.step = "remove_users"
  /\ \E raised \in BOOLEAN :
       /\ associations' = IF raised THEN associations
                          ELSE {a \in associations : a[2] # b_call.account}
       /\ b_call' = [b_call EXCEPT
            !.commands = Append(@, "remove user"),
            !.error = IF raised THEN "BackendError" ELSE "none",
            !.step = IF raised THEN "done" ELSE "remove_account"]
  /\ UNCHANGED <<configVars, cpVars, accounts, account_limits, workerVars, historyVars,
                 memberVars, usage_lines, b_calls, reportVars, eventVars, driverVars>>

\* delete_account: sacctmgr remove account
b_remove_account ==
  /\ Deleting /\ b_call.step = "remove_account"
  /\ \E raised \in BOOLEAN :
       /\ accounts' = IF raised THEN accounts ELSE accounts \ {b_call.account}
       /\ account_limits' = [b \in accounts' |-> account_limits[b]]
       /\ b_call' = [b_call EXCEPT
            !.commands = Append(@, "remove account"),
            !.at_removal = list_account_users(associations, b_call.account),
            !.error = IF raised THEN "BackendError" ELSE "none",
            !.step = "done"]
  /\ UNCHANGED <<configVars, cpVars, associations, workerVars, historyVars,
                 memberVars, usage_lines, b_calls, reportVars, eventVars, driverVars>>

NextDelete ==
  \/ b_delete_resource
  \/ b_account_has_users
  \/ b_delete_all_users_from_account
  \/ b_remove_account

SpecDelete == InitDelete /\ [][NextDelete]_vars

\* ---------------------------------------------------------------- C35
\* C35: "remove account" is issued only for an account without user
\* associations, after "remove user" when it had any, and a deletion of an
\* account the cluster does not have ends without an error and without a
\* command.
UsersRemovedBeforeAccount ==
  b_call.op = "delete_resource" =>
    /\ \A i \in 1..Len(b_call.commands) :
         b_call.commands[i] = "remove account" =>
           /\ b_call.at_removal = {}
           /\ i = Len(b_call.commands)
    /\ (b_call.step = "done" /\ b_call.error = "none" /\ ~b_call.absent) =>
         /\ b_call.account \notin accounts
         /\ ~account_has_users(associations, b_call.account)
    /\ b_call.absent =>
         b_call.step = "done" /\ b_call.error = "none" /\ b_call.commands = <<>>

\* C35 witness: an account with users was deleted with the three commands in
\* order, the other account keeping its users
DeleteWitness ==
  /\ b_call.op = "delete_resource" /\ b_call.account = "a1" /\ b_call.step = "done"
  /\ b_call.commands = <<"show association", "remove user", "remove account">>
  /\ b_call.error = "none"
  /\ accounts = {"a2"}
  /\ associations = {<<"alice", "a2">>}

\* ---------------------------------------------------------------- C36
\* C36: add_users_to_resource never fails over home directories: whatever
\* happens while they are made for the newly granted users, the call raises
\* nothing, returns the set of users it granted and leaves their associations
\* in place.
HomedirFailureTolerated ==
  b_call.op = "add_users_to_resource" =>
    /\ b_call.error = "none"
    /\ b_call.returned = b_call.created
    /\ \A n \in b_call.created : <<n, b_call.account>> \in associations

\* ---------------------------------------------------------------- C37
\* C37: when the previous membership pass over a non-restricted resource
\* ended without an error, the next pass, with the same team and offering
\* users, asks for no addition and no removal on it.
SecondPassIsFixpoint ==
  [][(m_pc = "resources" /\ resource_report' # resource_report) =>
       LET r == Head(resource_report).marketplace_uuid
       IN (sync[r].processed /\ sync[r].exc = "none"
             /\ ~m_resources[r].restrict_member_access
             /\ sync'[r].add_called /\ sync'[r].remove_called) =>
            sync'[r].add = {} /\ sync'[r].remove = {}]_vars

\* ---------------------------------------------------------------- C38
\* C38: no path asks the backend to grant the blank username: not the
\* membership pass in the set it passes to add_users_to_resource, not the
\* role-change handler in its add_user call, not the Create order, so that no
\* association of the cluster is one the agent made for a blank username.
NoBlankUsernameGranted ==
  /\ \A r \in DOMAIN sync : "" \notin sync[r].add
  /\ e_op.op = "add_user" => e_event.username # ""
  /\ \A a \in associations : a[1] # ""

\* ---------------------------------------------------------------- C39
\* the handler has returned from a 'revoked' notification, no exception
\* having ended it, and no membership pass is under way
RevocationHandled ==
  /\ e_events > 0 /\ ~e_event.granted
  /\ e_pc = "idle" /\ e_op.op # "raised"
  /\ m_pc = "idle"

\* C39 as stated: once the 'revoked' notification of a user has been handled
\* and no membership pass is under way, no username of the user has an
\* association with a resource whose team is without the user.
RevocationNotLost ==
  RevocationHandled =>
    \A r \in DOMAIN m_resources :
      e_event.user_uuid \notin team[r] =>
        \A x \in get_user_offering_users(offering_users, e_event.user_uuid) :
          <<x.username, AccountOf(r)>> \notin associations

\* ------------------------------------------- the legacy membership worker
\* agent_membership_sync.OfferingMembershipProcessor: process_offering lists
\* and pulls as the one of processors.py does; for each pulled resource it
\* pushes the cluster's associations to the control plane, which keeps them
\* in usernames, and adds the team's offering users to the cluster.  It
\* removes nobody, asks for every offering user, restricted or not, and has
\* no QoS and no metadata step.

LegacyTeams == {{}, {"ua", "ub"}, {"ua", "ud"}}

InitMemberLegacy ==
  /\ impl = "agent_membership_sync"
  /\ offering_type = MARKETPLACE_SLURM_OFFERING_TYPE
  /\ backend_components = DefaultComponents
  /\ homedir_enabled \in BOOLEAN
  /\ OrderIdle
  /\ BackendIdle
  /\ ReportIdle
  /\ EventIdle
  /\ DriverIdle
  /\ \E t \in LegacyTeams : team = [r \in ReportResources |-> t]
  /\ offering_users = {offering_user("ua", "alice", FALSE), offering_user("ub", "bob", FALSE),
                       offering_user("uc", "carol", FALSE), offering_user("ud", "dave", TRUE)}
  /\ accounts = {AccountOf(r) : r \in ReportResources}
  /\ account_limits = [b \in accounts |-> EmptyDict]
  /\ associations \in {{}, {<<"alice", "a1">>}, {<<"carol", "a1">>, <<"dave", "a1">>}}
  /\ backend_settings = QosSettings
  /\ account_qos = [b \in accounts |-> "normal"]
  /\ \E known \in {{}, {"alice"}, {"erin"}} :
       m_resources = [r \in ReportResources |->
         [state |-> "OK", backend_id |-> AccountOf(r),
          restrict_member_access |-> FALSE, paused |-> FALSE,
          downscaled |-> r = "r2", backend_metadata |-> "none",
          usernames |-> IF r = "r1" THEN known ELSE {}]]
  /\ m_pc = "idle"
  /\ resource_report = <<>>
  /\ m_frame = NoFrame
  /\ sync = [r \in ReportResources |-> NoSync]

\* _sync_slurm_resource_users (agent_membership_sync.py): the usernames of
\* the team's offering users that the cluster does not have
legacy_offering_user_usernames(ous, local_usernames, user_uuids) ==
  {x.username : x \in {y \in ous : /\ y.username \notin local_usernames
                                   /\ y.user_uuid \in user_uuids}}

\* _process_resources of agent_membership_sync.py, one iteration of the
\* loop, with _sync_slurm_resource_users.  The calls, in order:
\*   1 list_slurm_associations       5 list_remote_offering_users
\*   2 delete_slurm_association, one per stale username
\*   3 create_slurm_association, one per new username
\*   4 marketplace_resource_get_team 6 create_slurm_association, one per
\*   7 backend add_users_to_resource   offering-user username
\* fp is the call that raises (0: none); a username in refused or refused_ou
\* is one whose delete or create call the control plane refuses, which
\* common_utils logs.  The except clauses log WaldurClientException and
\* BackendError and go on with the next resource; the TypeError of the
\* homedir call is neither, and leaves the pass.
sync_slurm_resource_users_legacy ==
  /\ impl = "agent_membership_sync"
  /\ m_pc = "resources"
  /\ LET resource == Head(resource_report)
         r == resource.marketplace_uuid
         account == resource.backend_id
         local_usernames == resource.users
         remote_usernames == m_resources[r].usernames
         stale_usernames == remote_usernames \ local_usernames
         new_usernames == local_usernames \ remote_usernames
         offering_user_usernames ==
           legacy_offering_user_usernames(offering_users, local_usernames, team[r])
         added == added_users(associations, account, offering_user_usernames)
         homedirs == homedirs_raise(homedir_enabled, added)
     IN \E fp \in {0, 1, 4, 5, 7},
           refused \in SUBSET (stale_usernames \cup new_usernames),
           refused_ou \in SUBSET offering_user_usernames :
          LET tried(k) == fp = 0 \/ fp >= k
              did(k) == tried(k) /\ fp # k
              leaves == did(7) /\ homedirs
              pushed == (IF did(1) THEN new_usernames \ refused ELSE {})
                          \cup (IF did(5) THEN offering_user_usernames \ refused_ou ELSE {})
              dropped == IF did(1) THEN stale_usernames \ refused ELSE {}
          IN /\ ~did(1) => refused = {}
             /\ ~did(5) => refused_ou = {}
             /\ m_resources' = [m_resources EXCEPT ![r].usernames = (@ \ dropped) \cup pushed]
             /\ associations' = IF did(7)
                                  THEN associations \cup {<<n, account>> : n \in added}
                                  ELSE associations
             /\ sync' = [sync EXCEPT ![r] =
                   [NoSync EXCEPT
                      !.processed = TRUE, !.local_usernames = local_usernames,
                      !.add_called = tried(7),
                      !.add = IF tried(7) THEN offering_user_usernames ELSE {},
                      !.added = IF did(7) THEN added ELSE {},
                      !.exc = IF fp \in {1, 4, 5} THEN "waldur"
                              ELSE IF fp = 7 THEN "backend"
                              ELSE IF leaves THEN "other" ELSE "none"]]
             /\ resource_report' = IF leaves THEN <<>> ELSE Tail(resource_report)
             /\ m_pc' = IF leaves \/ Tail(resource_report) = <<>> THEN "idle" ELSE "resources"
  /\ UNCHANGED <<configVars, cpVars, accounts, account_limits, workerVars,
                 historyVars, backend_settings, m_frame, account_qos, backendVars,
                 reportVars, eventVars, driverVars>>

NextMemberLegacy ==
  \/ m_process_offering
  \/ sync_slurm_resource_users_legacy

SpecMemberLegacy == InitMemberLegacy /\ [][NextMemberLegacy]_vars

====
